---- MODULE Spec2Model ----
(***************************************************************************)
(* SMS assistant: location singleton flag, permission guard and grants,    *)
(* intent recognition and dispatch, inbound SMS pipeline, the trip engine, *)
(* lists and their sharing, and the admin-key guard of /status, modelled   *)
(* from the TypeScript sources.                                            *)
(***************************************************************************)
EXTENDS Integers, Sequences, FiniteSets, TLC

VARIABLES
    locations,    \* Location table, in insertion order (row id = index)
    locRet,       \* last updateLocation / updateLocationFromAddress call and its return
    locReply,     \* the handleLocationUpdate call just made and its reply, else << >>
    tx,           \* per connection: the open flip-then-insert transaction
    permissions,  \* Permission table (set of rows)
    now,          \* wall clock read by new Date()
    permCheck,    \* hasPermission call in progress: its arguments and its result
    messageLog,   \* MessageLog table, in insertion order
    smsPc,        \* position of handleIncomingSms in the current request
    smsReq,       \* locals of the current handleIncomingSms request
    outbox,       \* every twilioClient.messages.create attempt made by sendSms
    received,     \* number of inbound webhooks accepted so far
    permCall,     \* grantPermission / revokePermission call in progress and its return
    intentRet,    \* last recognizeIntent call: its message, the API outcome, its return
    trips,        \* Trip table, in insertion order (row id = index)
    tripRet,      \* last trip service / handler call, its inputs and what it returned
    lists,        \* List table, in insertion order (row id = index)
    listItems,    \* ListItem table, in insertion order
    listShares,   \* ListShare table (set of rows, unique per list and user)
    listRet,      \* last list service / handler call, its inputs and what it returned
    httpEnv,      \* process.env.ADMIN_API_KEY: << >> when unset, else <<value>>
    httpReq,      \* the HTTP request being served on /health or /status
    addReq        \* per request in flight: the position and locals of handleListAddItem

locVars  == <<locations, locRet, locReply>>
txVars   == <<tx>>
permVars == <<permissions, now, permCheck>>
smsVars  == <<messageLog, smsPc, smsReq, outbox, received>>
opsVars  == <<permCall>>
intentVars == <<intentRet>>
tripVars == <<trips, tripRet>>
listVars == <<lists, listItems, listShares, listRet>>
httpVars == <<httpEnv, httpReq>>
addVars  == <<addReq>>
vars     == <<locations, locRet, locReply, tx, permissions, now, permCheck,
              messageLog, smsPc, smsReq, outbox, received,
              permCall, intentRet, trips, tripRet,
              lists, listItems, listShares, listRet, httpEnv, httpReq, addReq>>

(***************************************************************************)
(* Bounds of the model                                                     *)
(***************************************************************************)
MaxLocations == 2
NumProcs == 2
MaxPermRows == 1
MaxTime == 1
MaxMessages == 1
MaxTrips == 2
MaxLists == 2
MaxItems == 2

(***************************************************************************)
(* Users table (prisma/seed.ts): one primary user and two family members.  *)
(* Phone numbers are sequences of characters.                              *)
(***************************************************************************)
PrimaryPhone == <<"+","1","2","3","4","5","6","7","8","9","0">>
NataliePhone == <<"+","1","5","5","5","5","5","5","1","2","3","4">>
MomPhone     == <<"+","1","5","5","5","5","5","5","5","6","7","8">>

UserRows ==
    { [id |-> "u1", phoneNumber |-> PrimaryPhone, isPrimaryUser |-> TRUE],
      [id |-> "u2", phoneNumber |-> NataliePhone, isPrimaryUser |-> FALSE],
      [id |-> "u3", phoneNumber |-> MomPhone,     isPrimaryUser |-> FALSE] }

UserIds == { u.id : u \in UserRows }

NonPrimaryIds == { u.id : u \in { r \in UserRows : ~r.isPrimaryUser } }

(***************************************************************************)
(* Location service: updateLocation, updateLocationFromAddress             *)
(***************************************************************************)
\* coordinates passed to updateLocation directly
Coords == {2}

\* geocodeAddress(address): a result {lat, lng, formattedAddress}, none, or an
\* exception
GeocodeResults ==
    { [status |-> "ok", lat |-> 1, lng |-> 1, formattedAddress |-> "123 Main St"],
      [status |-> "ok", lat |-> 1, lng |-> 2, formattedAddress |-> "456 Oak Ave"] }

GeocodeFailures ==
    { [status |-> "none", lat |-> 0, lng |-> 0, formattedAddress |-> "none"],
      [status |-> "throws", lat |-> 0, lng |-> 0, formattedAddress |-> "none"] }

NoRow == 0

LocationIds == 1..Len(locations)

CurrentLocationIds(locs, userId) ==
    { i \in 1..Len(locs) : locs[i].userId = userId /\ locs[i].isCurrent }

\* variant of the updateMany that also blanks the address of the rows it flips
FlipRowsBlankAddress(locs, ids) ==
    [ i \in 1..Len(locs) |->
        IF i \in ids THEN [locs[i] EXCEPT !.isCurrent = FALSE, !.address = ""] ELSE locs[i] ]

\* prisma.location.updateMany({where: {userId, isCurrent: true}, data: {isCurrent: false}})
\* applied to the rows `ids`
FlipRows(locs, ids) ==
    [ i \in 1..Len(locs) |->
        IF i \in ids THEN [locs[i] EXCEPT !.isCurrent = FALSE] ELSE locs[i] ]

\* prisma.location.create({data: {userId, latitude, longitude, address, label, isCurrent: true}})
NewLocationRow(userId, lat, lng, address) ==
    [userId |-> userId, lat |-> lat, lng |-> lng, address |-> address, isCurrent |-> TRUE]

\* variant whose updateMany is missing
FlipThenInsertNoFlip(locs, userId, lat, lng, address) ==
    Append(locs, NewLocationRow(userId, lat, lng, address))

\* the transaction of updateLocation run alone: flip every current row of the
\* user, then insert the new current row
FlipThenInsert(locs, userId, lat, lng, address) ==
    Append(FlipRows(locs, CurrentLocationIds(locs, userId)),
           NewLocationRow(userId, lat, lng, address))

\* variant whose updateMany survives the failure of the create
updateLocationCallPartial(op, userId, lat, lng, address, ok) ==
    IF ok
    THEN /\ Len(locations) < MaxLocations
         /\ locations' = FlipThenInsert(locations, userId, lat, lng, address)
         /\ locRet' = [op |-> op, userId |-> userId, ret |-> Len(locations) + 1]
    ELSE /\ locations' = FlipRows(locations, CurrentLocationIds(locations, userId))
         /\ locRet' = [op |-> op, userId |-> userId, ret |-> NoRow]

\* updateLocation(userId, latitude, longitude, address): the transaction commits
\* and the new row is returned, or it fails, nothing is applied and null is returned
updateLocationCall(op, userId, lat, lng, address, ok) ==
    IF ok
    THEN /\ Len(locations) < MaxLocations
         /\ locations' = FlipThenInsert(locations, userId, lat, lng, address)
         /\ locRet' = [op |-> op, userId |-> userId, ret |-> Len(locations) + 1]
    ELSE /\ locations' = locations
         /\ locRet' = [op |-> op, userId |-> userId, ret |-> NoRow]

updateLocation(userId, lat, lng, address, ok) ==
    /\ updateLocationCall("updateLocation", userId, lat, lng, address, ok)
    /\ locReply' = << >>
    /\ UNCHANGED <<txVars, permVars, smsVars, opsVars, intentVars, tripVars, listVars, httpVars, addVars>>

\* variant that flips the user's current rows before it geocodes
updateLocationFromAddressFlipFirst(userId, geo, ok) ==
    IF geo.status = "ok"
    THEN updateLocationCall("updateLocationFromAddress", userId,
                            geo.lat, geo.lng, geo.formattedAddress, ok)
    ELSE /\ locations' = FlipRows(locations, CurrentLocationIds(locations, userId))
         /\ locRet' = [op |-> "updateLocationFromAddress", userId |-> userId,
                       ret |-> NoRow]

\* updateLocationFromAddress(userId, address): geocode, return null when the
\* geocoder returns none or throws, else updateLocation with the geocoded point
updateLocationFromAddressCall(userId, geo, ok) ==
    IF geo.status = "ok"
    THEN updateLocationCall("updateLocationFromAddress", userId,
                            geo.lat, geo.lng, geo.formattedAddress, ok)
    ELSE /\ locations' = locations
         /\ locRet' = [op |-> "updateLocationFromAddress", userId |-> userId,
                       ret |-> NoRow]

updateLocationFromAddress(userId, geo, ok) ==
    /\ updateLocationFromAddressCall(userId, geo, ok)
    /\ locReply' = << >>
    /\ UNCHANGED <<txVars, permVars, smsVars, opsVars, intentVars, tripVars, listVars, httpVars, addVars>>

\* replies of handleLocationUpdate: which text, and the place it names
LocationReply(kind, place) == [kind |-> kind, place |-> place]

\* the location entity of the requests
LocationEntity == "grandma's house"

LOCATION_MISSING == LocationReply("couldNotFigureOutWhere", "none")
LOCATION_NOT_FOUND == LocationReply("couldNotFindLocation", LocationEntity)

\* handleLocationUpdate(intent, user); hasLocation: the entities name a location
handleLocationUpdate(userId, hasLocation, geo, ok) ==
    /\ IF ~hasLocation
       THEN /\ locations' = locations
            /\ locRet' = locRet
            /\ locReply' = << [userId |-> userId, geo |-> "unused",
                               reply |-> LOCATION_MISSING] >>
       ELSE /\ updateLocationFromAddressCall(userId, geo, ok)
            /\ locReply' =
                 << [userId |-> userId, geo |-> geo.status,
                     reply |-> IF locRet'.ret = NoRow THEN LOCATION_NOT_FOUND
                               ELSE LocationReply("locationUpdated",
                                      IF locations'[locRet'.ret].address # ""
                                      THEN locations'[locRet'.ret].address
                                      ELSE LocationEntity)] >>
    /\ UNCHANGED <<txVars, permVars, smsVars, opsVars, intentVars, tripVars, listVars, httpVars, addVars>>

\* `${currentLocation.latitude}, ${currentLocation.longitude}`
CoordinatesText(lat, lng) == ToString(lat) \o ", " \o ToString(lng)

\* contact names a location query can carry: none, or the name of another user
ContactNames == {"none", "Mom"}

NO_CURRENT_LOCATION == LocationReply("noCurrentLocation", "none")

\* the reply of handleLocationQuery: the address of the caller's current row, its
\* coordinates when the row has no address
LocationQueryReply(locs, userId, ok) ==
    LET currentLocation ==
            IF ok /\ CurrentLocationIds(locs, userId) # {}
            THEN CHOOSE i \in CurrentLocationIds(locs, userId) :
                     \A j \in CurrentLocationIds(locs, userId) : j <= i
            ELSE NoRow
    IN  IF currentLocation = NoRow THEN NO_CURRENT_LOCATION
        ELSE LocationReply("currentLocation",
                 IF locs[currentLocation].address \notin {"", "none"}
                 THEN locs[currentLocation].address
                 ELSE CoordinatesText(locs[currentLocation].lat, locs[currentLocation].lng))

\* handleLocationQuery(intent, user): getCurrentLocation(user.id); the contactName
\* of the entities is logged and not used
handleLocationQuery(userId, contactName, ok) ==
    /\ locReply' = << [userId |-> userId, geo |-> "unused",
                       reply |-> LocationQueryReply(locations, userId, ok)] >>
    /\ UNCHANGED <<locations, locRet, txVars, permVars, smsVars, opsVars, intentVars, tripVars, listVars, httpVars, addVars>>

(***************************************************************************)
(* Concurrent updateLocation calls.  prisma.$transaction([updateMany,      *)
(* create]) is passed no isolationLevel, so each call is one PostgreSQL    *)
(* transaction at the database default, READ COMMITTED: a statement reads  *)
(* the rows committed when it starts, an UPDATE waits for the row locks of *)
(* an open transaction and then re-checks its WHERE clause on the locked   *)
(* rows only, and writes become visible to others at COMMIT.               *)
(***************************************************************************)
Procs == 1..NumProcs

IdleTx == [pc |-> "idle", userId |-> "u1", lat |-> 2, snap |-> {}, flips |-> {}]

OpenTxs == { p \in Procs : tx[p].pc # "idle" }

\* updateLocation is called on connection p and opens its transaction
TxBegin(p, userId, lat) ==
    /\ tx[p].pc = "idle"
    /\ Len(locations) + Cardinality(OpenTxs) < MaxLocations
    /\ tx' = [tx EXCEPT ![p] = [IdleTx EXCEPT !.pc = "begun", !.userId = userId,
                                              !.lat = lat]]
    /\ UNCHANGED <<locVars, permVars, smsVars, opsVars, intentVars, tripVars, listVars, httpVars, addVars>>

\* updateMany starts: it selects the committed rows matching
\* {userId, isCurrent: true}
TxUpdateManyScan(p) ==
    /\ tx[p].pc = "begun"
    /\ tx' = [tx EXCEPT ![p].pc = "scanned",
                        ![p].snap = CurrentLocationIds(locations, tx[p].userId)]
    /\ UNCHANGED <<locVars, permVars, smsVars, opsVars, intentVars, tripVars, listVars, httpVars, addVars>>

\* updateMany completes: it waits while a selected row is locked by another
\* open transaction, re-checks the selected rows and flips those still current
TxUpdateManyApply(p) ==
    /\ tx[p].pc = "scanned"
    /\ \A q \in Procs \ {p} : tx[q].flips \cap tx[p].snap = {}
    /\ tx' = [tx EXCEPT ![p].pc = "flipped",
                        ![p].flips = { i \in tx[p].snap : locations[i].isCurrent }]
    /\ UNCHANGED <<locVars, permVars, smsVars, opsVars, intentVars, tripVars, listVars, httpVars, addVars>>

\* create: the new current row is written inside the transaction
TxCreate(p) ==
    /\ tx[p].pc = "flipped"
    /\ tx' = [tx EXCEPT ![p].pc = "created"]
    /\ UNCHANGED <<locVars, permVars, smsVars, opsVars, intentVars, tripVars, listVars, httpVars, addVars>>

\* COMMIT: the flips and the new row become visible; updateLocation returns the row
TxCommit(p) ==
    /\ tx[p].pc = "created"
    /\ locations' = Append(FlipRows(locations, tx[p].flips),
                           NewLocationRow(tx[p].userId, tx[p].lat, tx[p].lat, "none"))
    /\ tx' = [tx EXCEPT ![p] = IdleTx]
    /\ UNCHANGED <<locRet, locReply, permVars, smsVars, opsVars, intentVars, tripVars, listVars, httpVars, addVars>>

\* a statement or the commit fails: ROLLBACK, the catch block returns null
TxRollback(p) ==
    /\ tx[p].pc \in {"begun", "scanned", "flipped", "created"}
    /\ tx' = [tx EXCEPT ![p] = IdleTx]
    /\ UNCHANGED <<locVars, permVars, smsVars, opsVars, intentVars, tripVars, listVars, httpVars, addVars>>

(***************************************************************************)
(* Permission service                                                      *)
(***************************************************************************)
PermissionType == {"location", "eta", "contacts", "lists"}

\* kinds the calls of the model are drawn from (kinds are only compared for equality)
PermKinds == {"location", "eta"}

\* an optional Date: <<>> is null / undefined, <<t>> is the instant t
NoDate == << >>
Times == 0..MaxTime
ExpiryInputs == {NoDate} \cup { <<t>> : t \in Times }

\* the rows selected by the unique key userId_grantedByUserId_permissionType
PermRowsAt(perms, userId, grantedByUserId, permissionType) ==
    { r \in perms : /\ r.userId = userId
                    /\ r.grantedByUserId = grantedByUserId
                    /\ r.permissionType = permissionType }

\* if (requestingUser.isPrimaryUser) return true
PrimaryBypassOff(requestingUser) == FALSE

PrimaryBypass(requestingUser) == requestingUser.isPrimaryUser

\* if (requestingUser.id === targetUserId) return true
SelfAccessOff(requestingUser, targetUserId) == FALSE

SelfAccess(requestingUser, targetUserId) == requestingUser.id = targetUserId

\* if (!permission || !permission.isActive) return false
PermissionMissingOnly(found) == found = {}

PermissionMissingOrInactive(found) ==
    found = {} \/ \E r \in found : ~r.isActive

\* if (permission.expiresAt && permission.expiresAt < new Date()) return false
PermissionExpiredInclusive(found, t) ==
    \E r \in found : r.expiresAt # NoDate /\ r.expiresAt[1] <= t

PermissionExpired(found, t) ==
    \E r \in found : r.expiresAt # NoDate /\ r.expiresAt[1] < t

Returned(v) == [threw |-> FALSE, value |-> v]
Thrown == [threw |-> TRUE, value |-> FALSE]

\* the try block of hasPermission; lookupFails: prisma.permission.findUnique rejects
HasPermissionTry(requestingUser, targetUserId, permissionType, perms, t, lookupFails) ==
    IF PrimaryBypass(requestingUser) THEN Returned(TRUE)
    ELSE IF SelfAccess(requestingUser, targetUserId) THEN Returned(TRUE)
    ELSE IF lookupFails THEN Thrown
    ELSE LET found == PermRowsAt(perms, requestingUser.id, targetUserId, permissionType)
         IN  IF PermissionMissingOrInactive(found) THEN Returned(FALSE)
             ELSE IF PermissionExpired(found, t) THEN Returned(FALSE)
             ELSE Returned(TRUE)

\* variant without the catch block
hasPermissionUncaught(requestingUser, targetUserId, permissionType, perms, t, lookupFails) ==
    HasPermissionTry(requestingUser, targetUserId, permissionType, perms, t, lookupFails)

\* hasPermission: the try block, and the catch block that returns false
hasPermission(requestingUser, targetUserId, permissionType, perms, t, lookupFails) ==
    LET r == HasPermissionTry(requestingUser, targetUserId, permissionType, perms, t,
                              lookupFails)
    IN  IF r.threw THEN Returned(FALSE) ELSE r

\* variant of the upsert that always takes the create branch
UpsertPermissionInsert(perms, grantedByUserId, userId, permissionType, expiresAt) ==
    perms \cup { [userId |-> userId, grantedByUserId |-> grantedByUserId,
                  permissionType |-> permissionType, isActive |-> TRUE,
                  expiresAt |-> expiresAt] }

\* variant whose update branch stores the expiresAt it was given, none included
UpsertPermissionReplacesExpiry(perms, grantedByUserId, userId, permissionType, expiresAt) ==
    LET found == PermRowsAt(perms, userId, grantedByUserId, permissionType)
    IN  (perms \ found) \cup
        { [userId |-> userId, grantedByUserId |-> grantedByUserId,
           permissionType |-> permissionType, isActive |-> TRUE,
           expiresAt |-> expiresAt] }

\* prisma.permission.upsert: update {isActive: true, expiresAt} on the row of the
\* key (an undefined expiresAt leaves the column as it is), else create the row
UpsertPermission(perms, grantedByUserId, userId, permissionType, expiresAt) ==
    LET found == PermRowsAt(perms, userId, grantedByUserId, permissionType)
    IN  IF found # {}
        THEN (perms \ found) \cup
             { [r EXCEPT !.isActive = TRUE,
                         !.expiresAt = IF expiresAt = NoDate THEN @ ELSE expiresAt]
               : r \in found }
        ELSE perms \cup
             { [userId |-> userId, grantedByUserId |-> grantedByUserId,
                permissionType |-> permissionType, isActive |-> TRUE,
                expiresAt |-> expiresAt] }

\* grantPermission(grantedByUserId, userId, permissionType, expiresAt?)
grantPermission(grantedByUserId, userId, permissionType, expiresAt, ok) ==
    /\ permCheck = <<>>
    /\ IF ok
       THEN /\ \/ PermRowsAt(permissions, userId, grantedByUserId, permissionType) # {}
               \/ Cardinality(permissions) < MaxPermRows
            /\ permissions' = UpsertPermission(permissions, grantedByUserId, userId,
                                               permissionType, expiresAt)
       ELSE permissions' = permissions
    /\ UNCHANGED <<now, permCheck, locVars, txVars, smsVars, opsVars, intentVars, tripVars, listVars, httpVars, addVars>>

\* variant of the revoke that flips isActive instead of clearing it
RevokeRowsToggle(perms, grantedByUserId, userId, permissionType) ==
    LET found == PermRowsAt(perms, userId, grantedByUserId, permissionType)
    IN  (perms \ found) \cup { [r EXCEPT !.isActive = ~@] : r \in found }

\* variant of the revoke that deletes the rows
RevokeRowsDelete(perms, grantedByUserId, userId, permissionType) ==
    perms \ PermRowsAt(perms, userId, grantedByUserId, permissionType)

\* prisma.permission.updateMany({where: {userId, grantedByUserId, permissionType},
\* data: {isActive: false}})
RevokeRows(perms, grantedByUserId, userId, permissionType) ==
    LET found == PermRowsAt(perms, userId, grantedByUserId, permissionType)
    IN  (perms \ found) \cup { [r EXCEPT !.isActive = FALSE] : r \in found }

\* revokePermission(grantedByUserId, userId, permissionType)
revokePermission(grantedByUserId, userId, permissionType, ok) ==
    /\ permCheck = <<>>
    /\ permissions' = IF ok
                      THEN RevokeRows(permissions, grantedByUserId, userId, permissionType)
                      ELSE permissions
    /\ UNCHANGED <<now, permCheck, locVars, txVars, smsVars, opsVars, intentVars, tripVars, listVars, httpVars, addVars>>

\* time passes
Tick ==
    /\ permCheck = <<>>
    /\ now < MaxTime
    /\ now' = now + 1
    /\ UNCHANGED <<permissions, permCheck, locVars, txVars, smsVars, opsVars, intentVars, tripVars, listVars, httpVars, addVars>>

\* a caller evaluates hasPermission(requestingUser, targetUserId, permissionType)
CheckPermission(requestingUser, targetUserId, permissionType, lookupFails) ==
    /\ permCheck = <<>>
    /\ permCheck' = << [requestingUser |-> requestingUser,
                        targetUserId |-> targetUserId,
                        permissionType |-> permissionType,
                        lookupFails |-> lookupFails,
                        result |-> hasPermission(requestingUser, targetUserId,
                                                 permissionType, permissions, now,
                                                 lookupFails)] >>
    /\ UNCHANGED <<permissions, now, locVars, txVars, smsVars, opsVars, intentVars, tripVars, listVars, httpVars, addVars>>

\* the caller has consumed the result
PermReturn ==
    /\ permCheck # <<>>
    /\ permCheck' = <<>>
    /\ UNCHANGED <<permissions, now, locVars, txVars, smsVars, opsVars, intentVars, tripVars, listVars, httpVars, addVars>>

\* a grantPermission / revokePermission call as its caller sees it: the arguments,
\* the rows of the key before the call, and the boolean it returned
PermCallRecord(op, grantedByUserId, userId, permissionType, expiresAt, before, ret) ==
    [op |-> op, grantedByUserId |-> grantedByUserId, userId |-> userId,
     permissionType |-> permissionType, expiresAt |-> expiresAt,
     before |-> before, ret |-> ret]

\* grantPermission(...) called and awaited: returns true, or false from the catch block
grantPermissionCall(grantedByUserId, userId, permissionType, expiresAt, ok) ==
    /\ permCheck = <<>>
    /\ permCall = <<>>
    /\ IF ok
       THEN /\ \/ PermRowsAt(permissions, userId, grantedByUserId, permissionType) # {}
               \/ Cardinality(permissions) < MaxPermRows
            /\ permissions' = UpsertPermission(permissions, grantedByUserId, userId,
                                               permissionType, expiresAt)
       ELSE permissions' = permissions
    /\ permCall' = << PermCallRecord("grantPermission", grantedByUserId, userId,
                          permissionType, expiresAt,
                          PermRowsAt(permissions, userId, grantedByUserId, permissionType),
                          ok) >>
    /\ UNCHANGED <<now, permCheck, locVars, txVars, smsVars, intentVars, tripVars, listVars, httpVars, addVars>>

\* revokePermission(...) called and awaited: returns true, or false from the catch block
revokePermissionCall(grantedByUserId, userId, permissionType, ok) ==
    /\ permCheck = <<>>
    /\ permCall = <<>>
    /\ permissions' = IF ok
                      THEN RevokeRows(permissions, grantedByUserId, userId, permissionType)
                      ELSE permissions
    /\ permCall' = << PermCallRecord("revokePermission", grantedByUserId, userId,
                          permissionType, NoDate,
                          PermRowsAt(permissions, userId, grantedByUserId, permissionType),
                          ok) >>
    /\ UNCHANGED <<now, permCheck, locVars, txVars, smsVars, intentVars, tripVars, listVars, httpVars, addVars>>

\* the caller has consumed the boolean
PermCallReturn ==
    /\ permCall # <<>>
    /\ permCall' = <<>>
    /\ UNCHANGED <<permVars, locVars, txVars, smsVars, intentVars, tripVars, listVars, httpVars, addVars>>

(***************************************************************************)
(* Formatters                                                              *)
(***************************************************************************)
SMS_CHAR_LIMIT == 1600

\* a text: where it was built (kind, val) and its length in characters
Text(kind, val, len) == [kind |-> kind, val |-> val, len |-> len]

\* truncateForSms(text): texts over the limit are cut to maxLength - 3 characters
\* plus '...'
truncateForSms(text) ==
    IF text.len <= SMS_CHAR_LIMIT THEN text ELSE [text EXCEPT !.len = SMS_CHAR_LIMIT]

Digits == {"0","1","2","3","4","5","6","7","8","9"}

IsDigit(c) == c \in Digits

\* formatPhoneNumber(phone): strip non-digits, then prefix +1 or +
formatPhoneNumber(phone) ==
    LET digits == SelectSeq(phone, IsDigit)
    IN  IF Len(digits) = 10 /\ digits[1] # "1" THEN <<"+", "1">> \o digits
        ELSE IF Len(digits) = 11 /\ digits[1] = "1" THEN <<"+">> \o digits
        ELSE <<"+">> \o digits

(***************************************************************************)
(* Intent recognition and dispatch                                         *)
(***************************************************************************)
IntentType ==
    { "location_query", "eta_query", "location_update", "trip_start", "trip_cancel",
      "contact_lookup", "contact_share",
      "list_add_item", "list_remove_item", "list_view", "list_clear",
      "list_mark_complete", "list_create", "list_share",
      "help", "status", "unknown" }

\* what the classifier's JSON may carry as "intent": an enum value, another
\* string, or nothing
ClassifierLabels == IntentType \cup {"gibberish", ""}

\* result.confidence || 0.5, in hundredths
DEFAULT_CONFIDENCE == 50

\* an optional field of the parsed JSON: <<>> when absent, <<v>> when present
Absent == << >>

\* confidence values the JSON may carry, in hundredths
ClassifierConfidences == {Absent, <<0>>, <<90>>}

\* entity maps the JSON may carry, as sets of <<name, value>>
ClassifierEntities == {Absent, <<{}>>, <<{<<"location", "home">>}>>}

\* what JSON.parse(content.text) yields when it does not throw
JsonValue(shape, intent, confidence, entities) ==
    [shape |-> shape, intent |-> intent, confidence |-> confidence, entities |-> entities]

JsonObjects ==
    { JsonValue("object", i, c, e) :
        i \in {Absent} \cup { <<l>> : l \in ClassifierLabels },
        c \in ClassifierConfidences, e \in ClassifierEntities }

JsonNull == JsonValue("null", Absent, Absent, Absent)
JsonScalar == JsonValue("scalar", Absent, Absent, Absent)

\* what anthropic.messages.create can come back with: a rejection (API error or
\* timeout), a first content block that is not text, or a text block
ClassifierResponse(api, type, parses, json) ==
    [api |-> api, type |-> type, parses |-> parses, json |-> json]

ClassifierFailures ==
    { ClassifierResponse("error", "none", FALSE, JsonNull),
      ClassifierResponse("timeout", "none", FALSE, JsonNull),
      ClassifierResponse("ok", "tool_use", FALSE, JsonNull),
      ClassifierResponse("ok", "text", FALSE, JsonNull) }

ClassifierResponses ==
    ClassifierFailures \cup
    { ClassifierResponse("ok", "text", TRUE, j) : j \in JsonObjects \cup {JsonNull, JsonScalar} }

IntentResult(intent, confidence, entities, rawMessage) ==
    [intent |-> intent, confidence |-> confidence, entities |-> entities,
     rawMessage |-> rawMessage]

\* the object the catch block of recognizeIntent returns
IntentFallback(message) == IntentResult("unknown", 0, {}, message)

\* the try block of recognizeIntent: a rejected API call, a non-text block,
\* JSON.parse of bad text and a property read on null all throw
RecognizeIntentTry(message, response) ==
    IF response.api # "ok" THEN Thrown
    ELSE IF response.type # "text" THEN Thrown
    ELSE IF ~response.parses THEN Thrown
    ELSE IF response.json.shape = "null" THEN Thrown
    ELSE LET result == response.json
         IN  Returned(IntentResult(
                 IF result.intent = Absent \/ result.intent = <<"">>
                 THEN "unknown" ELSE result.intent[1],
                 IF result.confidence = Absent \/ result.confidence = <<0>>
                 THEN DEFAULT_CONFIDENCE ELSE result.confidence[1],
                 IF result.entities = Absent THEN {} ELSE result.entities[1],
                 message))

\* recognizeIntent(message, user): the try block, and the catch block that returns
\* UNKNOWN with confidence 0
recognizeIntent(message, response) ==
    LET r == RecognizeIntentTry(message, response)
    IN  IF r.threw THEN Returned(IntentFallback(message)) ELSE r

\* message texts handed to recognizeIntent
IntentMessages == {"where is mom", "add milk to the list"}

\* a caller evaluates recognizeIntent(message, user)
RecognizeCall(message, response) ==
    /\ intentRet' = << [message |-> message, response |-> response,
                        result |-> recognizeIntent(message, response)] >>
    /\ UNCHANGED <<locVars, txVars, permVars, smsVars, opsVars, tripVars, listVars, httpVars, addVars>>

\* the switch of handleIntent
\* variant whose switch has no default clause
HandlerForNoDefault(intent) ==
    CASE intent = "contact_lookup"     -> "handleContactLookup"
      [] intent = "contact_share"      -> "handleContactShare"
      [] intent = "list_view"          -> "handleListView"
      [] intent = "list_add_item"      -> "handleListAddItem"
      [] intent = "list_remove_item"   -> "handleListRemoveItem"
      [] intent = "list_mark_complete" -> "handleListMarkComplete"
      [] intent = "list_clear"         -> "handleListClear"
      [] intent = "list_create"        -> "handleListCreate"
      [] intent = "list_share"         -> "handleListShare"
      [] intent = "location_update"    -> "handleLocationUpdate"
      [] intent = "trip_start"         -> "handleTripStart"
      [] intent = "trip_cancel"        -> "handleTripCancel"
      [] intent = "location_query"     -> "handleLocationQuery"
      [] intent = "eta_query"          -> "handleEtaQuery"
      [] intent = "help"               -> "handleHelp"
      [] intent = "status"             -> "handleStatus"
      [] intent = "unknown"            -> "handleUnknown"
      [] OTHER                         -> "none"

HandlerFor(intent) ==
    CASE intent = "contact_lookup"     -> "handleContactLookup"
      [] intent = "contact_share"      -> "handleContactShare"
      [] intent = "list_view"          -> "handleListView"
      [] intent = "list_add_item"      -> "handleListAddItem"
      [] intent = "list_remove_item"   -> "handleListRemoveItem"
      [] intent = "list_mark_complete" -> "handleListMarkComplete"
      [] intent = "list_clear"         -> "handleListClear"
      [] intent = "list_create"        -> "handleListCreate"
      [] intent = "list_share"         -> "handleListShare"
      [] intent = "location_update"    -> "handleLocationUpdate"
      [] intent = "trip_start"         -> "handleTripStart"
      [] intent = "trip_cancel"        -> "handleTripCancel"
      [] intent = "location_query"     -> "handleLocationQuery"
      [] intent = "eta_query"          -> "handleEtaQuery"
      [] intent = "help"               -> "handleHelp"
      [] intent = "status"             -> "handleStatus"
      [] OTHER                         -> "handleUnknown"

HELP_MESSAGE == Text("fixed", "help", 314)
UNKNOWN_REPLY == Text("fixed", "unknown+help", 346)
STATUS_DENIED == Text("fixed", "status-denied", 48)
STATUS_REPORT == Text("fixed", "status-report", 90)

\* the fixed apology of the dispatcher's catch block
ROUTER_APOLOGY == Text("fixed", "router-apology", 72)

\* lengths of the replies the data handlers build (short, and over the SMS limit)
ReplyLengths == {40, 1700}

HandlerError == Text("error", "handler-exception", 60)

HandlerReturns(text) == [threw |-> FALSE, text |-> text]
HandlerThrows(error) == [threw |-> TRUE, text |-> error]

\* the replies a handler can build for `user`: handleHelp, handleStatus and
\* handleUnknown format fixed texts, the data handlers build theirs
HandlerReplies(handler, user) ==
    IF handler = "handleHelp" THEN { HELP_MESSAGE }
    ELSE IF handler = "handleUnknown" THEN { UNKNOWN_REPLY }
    ELSE IF handler = "handleStatus"
    THEN { IF user.isPrimaryUser THEN STATUS_REPORT ELSE STATUS_DENIED }
    ELSE { Text("handler", handler, n) : n \in ReplyLengths }

\* what awaiting a handler can do: resolve with a reply or reject with an error
HandlerOutcomes(handler, user) ==
    { HandlerReturns(t) : t \in HandlerReplies(handler, user) }
    \cup { HandlerThrows(HandlerError) }

AllHandlerOutcomes ==
    UNION { HandlerOutcomes(HandlerFor(i), u) : i \in ClassifierLabels, u \in UserRows }

\* variant whose catch block answers with the error's message
handleIntentLeaky(outcome) == [threw |-> FALSE, text |-> outcome.text]

\* handleIntent(intent, user), given what the selected handler did: the handler's
\* reply, or the fixed apology when the handler threw
handleIntent(outcome) ==
    IF outcome.threw
    THEN [threw |-> FALSE, text |-> ROUTER_APOLOGY]
    ELSE [threw |-> FALSE, text |-> outcome.text]

(***************************************************************************)
(* SMS service and controller: sendSms, handleIncomingSms                  *)
(***************************************************************************)
UnknownPhone == <<"+","1","5","5","5","0","0","0","0","0","0","0">>
ForeignPhone == <<"+","4","4","1","2","3","4","5","6","7","8">>
TwilioNumber == <<"+","1","5","5","5","1","2","3","0","0","0","0">>

\* payload.From values that pass validateTwilioWebhook (E.164)
FromPhones == {PrimaryPhone, NataliePhone, UnknownPhone, ForeignPhone}

\* the fixed texts of handleIncomingSms
REJECTION_TEXT == Text("fixed", "rejection", 85)
CONTROLLER_APOLOGY == Text("fixed", "controller-apology", 78)

NoText == Text("none", "none", 0)
NoUser == "none"

\* variant that matches any number
FindUserByPhoneAny(phone) == "u2"

\* prisma.user.findUnique({where: {phoneNumber}})
FindUserByPhone(phone) ==
    IF \E u \in UserRows : u.phoneNumber = phone
    THEN (CHOOSE u \in UserRows : u.phoneNumber = phone).id
    ELSE NoUser

UserById(id) == CHOOSE u \in UserRows : u.id = id

IdleReq ==
    [From |-> << >>, Sid |-> 0, fromPhone |-> << >>, sender |-> NoUser,
     logged |-> FALSE, lookedUp |-> FALSE, classified |-> FALSE, handled |-> FALSE,
     intent |-> "null", handler |-> "none", handlerThrew |-> FALSE,
     response |-> NoText]

\* what a sendSms call can meet: Twilio accepts the message and the outbound row
\* is written, Twilio rejects it, or the outbound MessageLog write fails
SendOutcomes == {"sent", "twilioError", "logError"}

\* sendSms({to, from, body}): truncate, hand the body to Twilio, log the outbound
\* row; any failure is caught and becomes {success: false}
sendSms(to, text, outcome) ==
    LET body == truncateForSms(text)
        attempt == [sid |-> smsReq.Sid, to |-> to, body |-> body,
                    accepted |-> outcome # "twilioError"]
    IN  /\ outbox' = Append(outbox, attempt)
        /\ messageLog' =
             IF outcome = "sent"
             THEN Append(messageLog,
                         [twilioSid |-> <<"out", Len(outbox) + 1>>,
                          direction |-> "outbound",
                          fromPhone |-> formatPhoneNumber(TwilioNumber),
                          toPhone |-> formatPhoneNumber(to),
                          status |-> "queued", intent |-> "null"])
             ELSE messageLog

\* the delivery states Twilio reports after a message was queued
MessageStatuses == {"sent", "delivered"}

\* the MessageSid of a status callback: one of the logged messages, or a message
\* that has no MessageLog row
StatusSids == { messageLog[i].twilioSid : i \in 1..Len(messageLog) } \cup {<<"out", 0>>}

\* handleSmsStatus(req, res):
\* prisma.messageLog.updateMany({where: {twilioSid: MessageSid}, data: {status: MessageStatus}});
\* a failed update changes nothing and is answered with status 500
handleSmsStatus(MessageSid, MessageStatus, ok) ==
    /\ messageLog' =
         IF ok
         THEN [ i \in 1..Len(messageLog) |->
                  IF messageLog[i].twilioSid = MessageSid
                  THEN [messageLog[i] EXCEPT !.status = MessageStatus]
                  ELSE messageLog[i] ]
         ELSE messageLog
    /\ UNCHANGED <<smsPc, smsReq, outbox, received, locVars, txVars, permVars, opsVars, intentVars, tripVars, listVars, httpVars, addVars>>

\* the webhook is accepted and handleIncomingSms starts: the phone numbers are
\* normalized
SmsReceive(from) ==
    /\ smsPc \in {"idle", "done"}
    /\ received < MaxMessages
    /\ received' = received + 1
    /\ smsReq' = [IdleReq EXCEPT !.From = from, !.Sid = received + 1,
                                 !.fromPhone = formatPhoneNumber(from)]
    /\ smsPc' = "log"
    /\ UNCHANGED <<messageLog, outbox, locVars, txVars, permVars, opsVars, intentVars, tripVars, listVars, httpVars, addVars>>

\* prisma.messageLog.create of the inbound row; a failure goes to the catch block
SmsLogInbound(ok) ==
    /\ smsPc = "log"
    /\ IF ok
       THEN /\ messageLog' = Append(messageLog,
                                    [twilioSid |-> <<"in", smsReq.Sid>>,
                                     direction |-> "inbound",
                                     fromPhone |-> smsReq.fromPhone,
                                     toPhone |-> formatPhoneNumber(TwilioNumber),
                                     status |-> "received", intent |-> "null"])
            /\ smsReq' = [smsReq EXCEPT !.logged = TRUE]
            /\ smsPc' = "lookup"
       ELSE /\ UNCHANGED <<messageLog, smsReq>>
            /\ smsPc' = "catch"
    /\ UNCHANGED <<outbox, received, locVars, txVars, permVars, opsVars, intentVars, tripVars, listVars, httpVars, addVars>>

\* prisma.user.findUnique by the normalized sender number
SmsLookup(ok) ==
    /\ smsPc = "lookup"
    /\ IF ok
       THEN /\ smsReq' = [smsReq EXCEPT !.lookedUp = TRUE,
                                        !.sender = FindUserByPhone(smsReq.fromPhone)]
            /\ smsPc' = IF FindUserByPhone(smsReq.fromPhone) = NoUser
                        THEN "reject" ELSE "classify"
       ELSE /\ UNCHANGED smsReq
            /\ smsPc' = "catch"
    /\ UNCHANGED <<messageLog, outbox, received, locVars, txVars, permVars, opsVars, intentVars, tripVars, listVars, httpVars, addVars>>

\* if (!sender): send the polite rejection and return
SmsReject(outcome) ==
    /\ smsPc = "reject"
    /\ sendSms(smsReq.fromPhone, REJECTION_TEXT, outcome)
    /\ smsPc' = "done"
    /\ UNCHANGED <<smsReq, received, locVars, txVars, permVars, opsVars, intentVars, tripVars, listVars, httpVars, addVars>>

\* payload.Body of the inbound webhook
InboundBody == "where is mom"

\* recognizeIntent(messageBody, sender)
SmsClassify(response) ==
    /\ smsPc = "classify"
    /\ smsReq' = [smsReq EXCEPT !.classified = TRUE,
                                !.intent = recognizeIntent(InboundBody, response).value.intent]
    /\ smsPc' = "backfill"
    /\ UNCHANGED <<messageLog, outbox, received, locVars, txVars, permVars, opsVars, intentVars, tripVars, listVars, httpVars, addVars>>

\* prisma.messageLog.updateMany({where: {twilioSid}, data: {intent}})
SmsBackfill(ok) ==
    /\ smsPc = "backfill"
    /\ IF ok
       THEN /\ messageLog' =
                 [ i \in 1..Len(messageLog) |->
                     IF messageLog[i].twilioSid = <<"in", smsReq.Sid>>
                     THEN [messageLog[i] EXCEPT !.intent = smsReq.intent]
                     ELSE messageLog[i] ]
            /\ smsPc' = "handle"
       ELSE /\ UNCHANGED messageLog
            /\ smsPc' = "catch"
    /\ UNCHANGED <<smsReq, outbox, received, locVars, txVars, permVars, opsVars, intentVars, tripVars, listVars, httpVars, addVars>>

\* handleIntent(intentResult, sender): the handler selected by the switch runs
SmsHandle(outcome) ==
    /\ smsPc = "handle"
    /\ outcome \in HandlerOutcomes(HandlerFor(smsReq.intent), UserById(smsReq.sender))
    /\ LET r == handleIntent(outcome)
       IN  IF r.threw
           THEN /\ smsReq' = [smsReq EXCEPT !.handled = TRUE,
                                            !.handler = HandlerFor(smsReq.intent),
                                            !.handlerThrew = outcome.threw]
                /\ smsPc' = "catch"
           ELSE /\ smsReq' = [smsReq EXCEPT !.handled = TRUE,
                                            !.handler = HandlerFor(smsReq.intent),
                                            !.handlerThrew = outcome.threw,
                                            !.response = r.text]
                /\ smsPc' = "reply"
    /\ UNCHANGED <<messageLog, outbox, received, locVars, txVars, permVars, opsVars, intentVars, tripVars, listVars, httpVars, addVars>>

\* variant in which a send that fails throws into the catch block
SmsReplyThrows(outcome) ==
    /\ smsPc = "reply"
    /\ sendSms(smsReq.fromPhone, smsReq.response, outcome)
    /\ smsPc' = IF outcome = "sent" THEN "done" ELSE "catch"
    /\ UNCHANGED <<smsReq, received, locVars, txVars, permVars, opsVars, intentVars, tripVars, listVars, httpVars, addVars>>

\* sendSms({to: fromPhone, from: toPhone, body: responseMessage})
SmsReply(outcome) ==
    /\ smsPc = "reply"
    /\ sendSms(smsReq.fromPhone, smsReq.response, outcome)
    /\ smsPc' = "done"
    /\ UNCHANGED <<smsReq, received, locVars, txVars, permVars, opsVars, intentVars, tripVars, listVars, httpVars, addVars>>

\* variant whose catch block sends nothing
SmsCatchSilent(outcome) ==
    /\ smsPc = "catch"
    /\ smsPc' = "done"
    /\ UNCHANGED <<messageLog, outbox, smsReq, received, locVars, txVars, permVars, opsVars, intentVars, tripVars, listVars, httpVars, addVars>>

\* the catch block: sendSms({to: payload.From, from: payload.To, body: apology})
SmsCatch(outcome) ==
    /\ smsPc = "catch"
    /\ sendSms(smsReq.From, CONTROLLER_APOLOGY, outcome)
    /\ smsPc' = "done"
    /\ UNCHANGED <<smsReq, received, locVars, txVars, permVars, opsVars, intentVars, tripVars, listVars, httpVars, addVars>>

(***************************************************************************)
(* Trips: startTrip, getActiveTrip, cancelTrip, calculateEta and the trip  *)
(* handlers.  The clock counts minutes.                                    *)
(***************************************************************************)
TripStatus == {"active", "completed", "cancelled"}

\* the user whose trips the model follows (every trip function selects rows by
\* userId or by trip id only)
TripUsers == {"u2"}

\* getDirections(origin, destination): a route, or none (it never throws);
\* distance in meters, durations in seconds
DirectionsResults ==
    { [status |-> "ok", distance |-> 800, duration |-> 60, durationInTraffic |-> 60] }

DirectionsNone ==
    [status |-> "none", distance |-> 0, duration |-> 0, durationInTraffic |-> 0]

DirectionsOutcomes == DirectionsResults \cup {DirectionsNone}

\* destinations the trip requests name, and what geocodeAddress makes of them
TripGeocodes ==
    { g \in GeocodeResults \cup GeocodeFailures :
        g.formattedAddress = "123 Main St" \/ g.status = "none" }

SetMax(S) == CHOOSE x \in S : \A y \in S : y <= x

\* getCurrentLocation(userId): the newest current row, null when there is none or
\* when the query fails
getCurrentLocation(locs, userId, ok) ==
    IF ok /\ CurrentLocationIds(locs, userId) # {}
    THEN SetMax(CurrentLocationIds(locs, userId))
    ELSE NoRow

ActiveTripIds(trs, userId) ==
    { i \in 1..Len(trs) : trs[i].userId = userId /\ trs[i].status = "active" }

\* getActiveTrip(userId): the newest active trip, null when there is none or when
\* the query fails
getActiveTrip(trs, userId, ok) ==
    IF ok /\ ActiveTripIds(trs, userId) # {}
    THEN SetMax(ActiveTripIds(trs, userId))
    ELSE NoRow

\* new Date(Date.now() + seconds * 1000)
DateAfter(t, seconds) == << t + (seconds \div 60) >>

\* variant that stores an arrival time whenever a route is on offer
EstimatedArrivalNoOrigin(currentLocation, directions, t) ==
    IF directions.status = "ok"
    THEN DateAfter(t, directions.durationInTraffic)
    ELSE NoDate

\* estimatedArrival of startTrip: set when there is an origin and getDirections
\* returned a route
EstimatedArrival(currentLocation, directions, t) ==
    IF currentLocation # NoRow /\ directions.status = "ok"
    THEN DateAfter(t, directions.durationInTraffic)
    ELSE NoDate

\* prisma.trip.create({data: {...}}) of startTrip
NewTripRow(userId, locs, currentLocation, geo, estimatedArrival) ==
    [userId |-> userId,
     origin |-> IF currentLocation # NoRow
                THEN << locs[currentLocation].lat, locs[currentLocation].lng >>
                ELSE << >>,
     destinationLat |-> geo.lat, destinationLng |-> geo.lng,
     destinationAddress |-> geo.formattedAddress,
     estimatedArrival |-> estimatedArrival,
     status |-> "active",
     completedAt |-> NoDate]

\* variant that goes on to route and insert when the geocoder returned none
startTripUngeocoded(trs, locs, userId, geo, directions, t, locOk, ok) ==
    LET currentLocation == getCurrentLocation(locs, userId, locOk)
    IN  IF ~ok
        THEN [trips |-> trs, ret |-> NoRow, routed |-> currentLocation # NoRow]
        ELSE [trips |-> Append(trs, NewTripRow(userId, locs, currentLocation, geo,
                                  EstimatedArrival(currentLocation, directions, t))),
              ret |-> Len(trs) + 1,
              routed |-> currentLocation # NoRow]

\* startTrip(userId, destinationAddress): the Trip table afterwards, the id of the
\* trip returned (NoRow for null) and whether getDirections was called
startTrip(trs, locs, userId, geo, directions, t, locOk, ok) ==
    LET currentLocation == getCurrentLocation(locs, userId, locOk)
    IN  IF geo.status # "ok"
        THEN [trips |-> trs, ret |-> NoRow, routed |-> FALSE]
        ELSE IF ~ok
        THEN [trips |-> trs, ret |-> NoRow, routed |-> currentLocation # NoRow]
        ELSE [trips |-> Append(trs, NewTripRow(userId, locs, currentLocation, geo,
                                  EstimatedArrival(currentLocation, directions, t))),
              ret |-> Len(trs) + 1,
              routed |-> currentLocation # NoRow]

\* prisma.trip.update({where: {id: tripId}, data: {status: 'cancelled',
\* completedAt: new Date()}}); update throws when no row has the id
CancelTripResult(trs, tripId, t, ok) ==
    IF ok /\ tripId \in 1..Len(trs)
    THEN [trips |-> [trs EXCEPT ![tripId].status = "cancelled",
                                ![tripId].completedAt = <<t>>],
          ret |-> TRUE]
    ELSE [trips |-> trs, ret |-> FALSE]

\* formatEta(estimatedArrival), read at time t
formatEta(estimatedArrival, t) ==
    LET diffMinutes == estimatedArrival[1] - t
        hours == diffMinutes \div 60
        minutes == diffMinutes % 60
    IN  IF diffMinutes < 0 THEN <<"arrived">>
        ELSE IF diffMinutes < 60 THEN <<diffMinutes, "min">>
        ELSE IF minutes = 0 THEN <<hours, IF hours = 1 THEN "hour" ELSE "hours">>
        ELSE <<hours, "h", minutes, "m">>

\* formatDuration(seconds)
formatDuration(seconds) ==
    LET minutes == seconds \div 60
        hours == minutes \div 60
        remainingMinutes == minutes % 60
    IN  IF hours > 0
        THEN IF remainingMinutes = 0
             THEN <<hours, IF hours = 1 THEN "hour" ELSE "hours">>
             ELSE <<hours, "h", remainingMinutes, "m">>
        ELSE <<minutes, IF minutes = 1 THEN "minute" ELSE "minutes">>

\* formatDistance(meters): meters below one kilometer, else miles, in tenths
\* below ten miles
formatDistance(meters) ==
    IF meters < 1000 THEN <<meters, "meters">>
    ELSE IF meters * 100 < 1609340
    THEN <<(meters * 1000 + 80467) \div 160934, "tenths of a mile">>
    ELSE <<(meters * 100 + 80467) \div 160934, "miles">>

\* replies of the trip handlers: which text, the destination it names, and the
\* ETA clause when it has one
TripReply(kind, destination, eta, detail) ==
    [kind |-> kind, destination |-> destination, eta |-> eta, detail |-> detail]

NoReply == TripReply("none", "none", Absent, Absent)
TRIP_NO_DESTINATION == TripReply("noDestination", "none", Absent, Absent)
TRIP_NOT_FOUND == TripReply("destinationNotFound", "none", Absent, Absent)
NO_TRIP_TO_CANCEL == TripReply("noTripToCancel", "none", Absent, Absent)
CANCEL_TROUBLE == TripReply("cancelTrouble", "none", Absent, Absent)
NO_ACTIVE_TRIP == TripReply("noActiveTrip", "none", Absent, Absent)
ETA_TROUBLE == TripReply("etaTrouble", "none", Absent, Absent)

\* a trip service or handler call as its caller sees it
\* (inputs that the call never got to consult are recorded as "unused" / TRUE)
TripCall(op, userId, tripId, geo, directions, locOk, ok, routed, ret, reply) ==
    [op |-> op, userId |-> userId, tripId |-> tripId, geo |-> geo.status,
     directions |-> IF routed THEN directions.status ELSE "unused",
     locOk |-> locOk, ok |-> ok,
     routed |-> routed, ret |-> ret, reply |-> reply]

NoGeocode == [status |-> "unused", lat |-> 0, lng |-> 0, formattedAddress |-> "none"]
NoDirections ==
    [status |-> "unused", distance |-> 0, duration |-> 0, durationInTraffic |-> 0]

\* handleTripStart(intent, user); hasDestination: the entities name a destination
handleTripStart(userId, hasDestination, geo, directions, locOk, ok) ==
    IF ~hasDestination
    THEN /\ trips' = trips
         /\ tripRet' = << TripCall("handleTripStart", userId, NoRow, NoGeocode,
                                   NoDirections, TRUE, TRUE, FALSE, FALSE,
                                   TRIP_NO_DESTINATION) >>
         /\ UNCHANGED <<locVars, txVars, permVars, smsVars, opsVars, intentVars, listVars, httpVars, addVars>>
    ELSE LET r == startTrip(trips, locations, userId, geo, directions, now,
                                  locOk, ok)
             trip == r.trips[r.ret]
         IN  /\ Len(r.trips) <= MaxTrips
             /\ trips' = r.trips
             /\ tripRet' =
                  << TripCall("handleTripStart", userId, r.ret, geo, directions, locOk,
                              geo.status # "ok" \/ ok, r.routed, r.ret # NoRow,
                              IF r.ret = NoRow THEN TRIP_NOT_FOUND
                              ELSE TripReply("tripStarted", trip.destinationAddress,
                                      IF trip.estimatedArrival # NoDate
                                      THEN << formatEta(trip.estimatedArrival, now) >>
                                      ELSE Absent,
                                      Absent)) >>
             /\ UNCHANGED <<locVars, txVars, permVars, smsVars, opsVars, intentVars, listVars, httpVars, addVars>>

\* cancelTrip(tripId) called by itself
cancelTrip(tripId, ok) ==
    LET r == CancelTripResult(trips, tripId, now, ok)
    IN  /\ trips' = r.trips
        /\ tripRet' = << TripCall("cancelTrip", "none", tripId, NoGeocode, NoDirections,
                                  TRUE, ok, FALSE, r.ret, NoReply) >>
        /\ UNCHANGED <<locVars, txVars, permVars, smsVars, opsVars, intentVars, listVars, httpVars, addVars>>

\* handleTripCancel(intent, user); tripOk: the getActiveTrip query succeeds
handleTripCancel(userId, tripOk, ok) ==
    LET activeTrip == getActiveTrip(trips, userId, tripOk)
        r == CancelTripResult(trips, activeTrip, now, ok)
    IN  /\ trips' = IF activeTrip = NoRow THEN trips ELSE r.trips
        /\ tripRet' =
             << TripCall("handleTripCancel", userId, activeTrip, NoGeocode, NoDirections,
                         tripOk, activeTrip = NoRow \/ ok, FALSE,
                         activeTrip # NoRow /\ r.ret,
                         IF activeTrip = NoRow THEN NO_TRIP_TO_CANCEL
                         ELSE IF ~r.ret THEN CANCEL_TROUBLE
                         ELSE TripReply("tripCancelled",
                                        trips[activeTrip].destinationAddress,
                                        Absent, Absent)) >>
        /\ UNCHANGED <<locVars, txVars, permVars, smsVars, opsVars, intentVars, listVars, httpVars, addVars>>

\* the reply of handleEtaQuery over the Trip and Location tables
EtaQueryReply(trs, locs, userId, tripOk, locOk, directions, t) ==
    LET activeTrip == getActiveTrip(trs, userId, tripOk)
        currentLocation == getCurrentLocation(locs, userId, locOk)
        known == currentLocation # NoRow /\ trs[activeTrip].estimatedArrival # NoDate
    IN  IF activeTrip = NoRow THEN NO_ACTIVE_TRIP
        ELSE IF ~known
        THEN TripReply("etaNotEnoughInformation",
                       trs[activeTrip].destinationAddress, Absent, Absent)
        ELSE IF directions.status # "ok" THEN ETA_TROUBLE
        ELSE TripReply("eta", trs[activeTrip].destinationAddress,
                 << formatEta(DateAfter(t, directions.durationInTraffic), t) >>,
                 << formatDistance(directions.distance),
                    formatDuration(directions.durationInTraffic) >>)

\* handleEtaQuery(intent, user): reads only
handleEtaQuery(userId, tripOk, locOk, directions) ==
    LET activeTrip == getActiveTrip(trips, userId, tripOk)
        currentLocation == getCurrentLocation(locations, userId, locOk)
        known == currentLocation # NoRow /\ trips[activeTrip].estimatedArrival # NoDate
        reply == EtaQueryReply(trips, locations, userId, tripOk, locOk, directions, now)
    IN  /\ tripRet' = << TripCall("handleEtaQuery", userId, activeTrip, NoGeocode,
                                  directions, locOk, tripOk,
                                  activeTrip # NoRow /\ known,
                                  reply.kind = "eta", reply) >>
        /\ UNCHANGED <<trips, locVars, txVars, permVars, smsVars, opsVars, intentVars, listVars, httpVars, addVars>>

(***************************************************************************)
(* Lists: resolution, items, sharing                                       *)
(***************************************************************************)
\* the users whose lists the model follows: an owner and a family member
ListUsers == {"u1", "u2"}

\* the user who creates named lists
ListOwners == {"u1"}

UpperCase == << "A", "B", "C", "D", "E", "F", "G", "H", "I", "J", "K", "L", "M",
                "N", "O", "P", "Q", "R", "S", "T", "U", "V", "W", "X", "Y", "Z" >>
LowerCase == << "a", "b", "c", "d", "e", "f", "g", "h", "i", "j", "k", "l", "m",
                "n", "o", "p", "q", "r", "s", "t", "u", "v", "w", "x", "y", "z" >>

\* toLowerCase of one character
LowerOf ==
    [ c \in { UpperCase[k] : k \in 1..Len(UpperCase) } |->
        LowerCase[CHOOSE k \in 1..Len(UpperCase) : UpperCase[k] = c] ]

\* String.prototype.toLowerCase, on a string given as its characters
toLowerCase(str) ==
    [ i \in 1..Len(str) |-> IF str[i] \in DOMAIN LowerOf THEN LowerOf[str[i]] ELSE str[i] ]

\* String.prototype.trim
RECURSIVE trim(_)
trim(str) ==
    IF str = << >> THEN str
    ELSE IF Head(str) = " " THEN trim(Tail(str))
    ELSE IF str[Len(str)] = " " THEN trim(SubSeq(str, 1, Len(str) - 1))
    ELSE str

\* {contains: needle}: needle occurs in str
Contains(str, needle) ==
    \E i \in 0..(Len(str) - Len(needle)) : SubSeq(str, i + 1, i + Len(needle)) = needle

\* {contains: needle, mode: 'insensitive'}
ContainsInsensitive(str, needle) == Contains(toLowerCase(str), toLowerCase(needle))

GROCERY_NAME == << "G", "r", "o", "c", "e", "r", "y", " ", "L", "i", "s", "t" >>
GROCERY_TYPE == << "g", "r", "o", "c", "e", "r", "y" >>
GENERAL_TYPE == << "g", "e", "n", "e", "r", "a", "l" >>

\* names given to handleListCreate
ListNames == { << "C", "o", "s", "t", "c", "o" >> }

\* names or types the requests look lists up by
ListQueries == { << "c", "o", "s", "t" >>, << "G", "r", "o", "c", "e", "r", "y" >> }

\* item contents the requests add, and texts they search items by
ItemContents == { << "m", "i", "l", "k" >>, << " ", "O", "a", "t", " ", "M", "i", "l", "k" >> }
ItemSearches == { << "m", "i", "l", "k" >>, << "O", "A", "T" >> }

ListIds == 1..Len(lists)

\* prisma.list.create({data: {ownerId, name, type, isShared: false}})
NewListRow(ownerId, name, type) ==
    [ownerId |-> ownerId, name |-> name, type |-> type, isShared |-> FALSE]

GroceryListIds(ls, userId) ==
    { i \in 1..Len(ls) : ls[i].ownerId = userId /\ ls[i].type = GROCERY_TYPE }

\* the name-or-type condition of getList and getUserAccessibleList
NameOrTypeMatches(list, listNameOrType) ==
    \/ ContainsInsensitive(list.name, listNameOrType)
    \/ list.type = toLowerCase(listNameOrType)

\* variant that matches the lists of every owner
OwnedMatchesAnyOwner(ls, userId, listNameOrType) ==
    { i \in 1..Len(ls) : NameOrTypeMatches(ls[i], listNameOrType) }

\* rows the findFirst of getList can return
OwnedMatches(ls, userId, listNameOrType) ==
    { i \in 1..Len(ls) :
        ls[i].ownerId = userId /\ NameOrTypeMatches(ls[i], listNameOrType) }

\* shares: {some: {sharedWithUserId: userId}}
SharedWith(shares, listId, userId) ==
    \E sh \in shares : sh.listId = listId /\ sh.sharedWithUserId = userId

\* rows the findFirst of getUserAccessibleList can return
AccessibleMatches(ls, shares, userId, listNameOrType) ==
    { i \in 1..Len(ls) :
        /\ ls[i].ownerId = userId \/ SharedWith(shares, i, userId)
        /\ NameOrTypeMatches(ls[i], listNameOrType) }

\* a list service result: the List table afterwards, the row returned (NoRow for
\* null) and whether the call rejected instead of returning
ListResult(ls, ret, threw) == [lists |-> ls, ret |-> ret, threw |-> threw]

\* variant that inserts a grocery list without looking for one
getOrCreateGroceryListAlways(ls, userId, found, ok) ==
    IF ~ok THEN ListResult(ls, NoRow, TRUE)
    ELSE ListResult(Append(ls, NewListRow(userId, GROCERY_NAME, GROCERY_TYPE)),
                    Len(ls) + 1, FALSE)

\* getOrCreateGroceryList(userId); found: the row findFirst picks when the user
\* owns a grocery list; a storage failure is rethrown
getOrCreateGroceryList(ls, userId, found, ok) ==
    IF ~ok THEN ListResult(ls, NoRow, TRUE)
    ELSE IF GroceryListIds(ls, userId) # {} THEN ListResult(ls, found, FALSE)
    ELSE ListResult(Append(ls, NewListRow(userId, GROCERY_NAME, GROCERY_TYPE)),
                    Len(ls) + 1, FALSE)

\* the rows a findFirst over the candidate set may return (no orderBy is given)
Picks(candidates) == IF candidates = {} THEN {NoRow} ELSE candidates

\* getList(userId, listNameOrType); without a name the promise of
\* getOrCreateGroceryList is returned without await, so its rejection passes the
\* catch block; with a name a storage failure yields null
getList(ls, userId, listNameOrType, found, ok) ==
    IF listNameOrType = Absent THEN getOrCreateGroceryList(ls, userId, found, ok)
    ELSE IF ~ok THEN ListResult(ls, NoRow, FALSE)
    ELSE ListResult(ls, found, FALSE)

\* what findFirst may pick for a getList call
getListPicks(ls, userId, listNameOrType) ==
    IF listNameOrType = Absent THEN Picks(GroceryListIds(ls, userId))
    ELSE Picks(OwnedMatches(ls, userId, listNameOrType[1]))

\* getUserAccessibleList(userId, listNameOrType)
getUserAccessibleList(ls, userId, listNameOrType, found, ok) ==
    IF listNameOrType = Absent THEN getOrCreateGroceryList(ls, userId, found, ok)
    ELSE IF ~ok THEN ListResult(ls, NoRow, FALSE)
    ELSE ListResult(ls, found, FALSE)

\* what findFirst may pick for a getUserAccessibleList call
getUserAccessibleListPicks(ls, shares, userId, listNameOrType) ==
    IF listNameOrType = Absent THEN Picks(GroceryListIds(ls, userId))
    ELSE Picks(AccessibleMatches(ls, shares, userId, listNameOrType[1]))

\* prisma.list.create of createList; a storage failure yields null
createList(ls, ownerId, name, type, ok) ==
    IF ok THEN ListResult(Append(ls, NewListRow(ownerId, name, type)), Len(ls) + 1, FALSE)
    ELSE ListResult(ls, NoRow, FALSE)

\* shareList(listId, sharedWithUserId, canEdit): listShare.create, which fails on
\* a second share of one list with one user or on an unknown list, then
\* list.update; the tables afterwards and the boolean returned
shareList(ls, shares, listId, sharedWithUserId, canEdit, createOk, updateOk) ==
    IF ~createOk \/ listId \notin 1..Len(ls) \/ SharedWith(shares, listId, sharedWithUserId)
    THEN [lists |-> ls, shares |-> shares, ret |-> FALSE]
    ELSE LET created == shares \cup { [listId |-> listId,
                                       sharedWithUserId |-> sharedWithUserId,
                                       canEdit |-> canEdit] }
         IN  IF ~updateOk THEN [lists |-> ls, shares |-> created, ret |-> FALSE]
             ELSE [lists |-> [ls EXCEPT ![listId].isShared = TRUE],
                   shares |-> created, ret |-> TRUE]

\* a List as a query hands it over: with its shares when the query included them
LoadedList(ls, shares, listId, includeShares) ==
    [ownerId |-> ls[listId].ownerId,
     shares |-> IF includeShares THEN << { sh \in shares : sh.listId = listId } >>
                ELSE Absent]

\* variant that lets any share edit
hasListAccessAnyShare(list, userId, requireEdit) ==
    \/ list.ownerId = userId
    \/ /\ list.shares # Absent
       /\ \E sh \in list.shares[1] : sh.sharedWithUserId = userId

\* hasListAccess(list, userId, requireEdit)
hasListAccess(list, userId, requireEdit) ==
    IF list.ownerId = userId THEN TRUE
    ELSE IF list.shares # Absent
            /\ \E sh \in list.shares[1] : sh.sharedWithUserId = userId
    THEN LET share == CHOOSE sh \in list.shares[1] : sh.sharedWithUserId = userId
         IN  ~requireEdit \/ share.canEdit
    ELSE FALSE

ItemsOf(items, listId) == { i \in 1..Len(items) : items[i].listId = listId }

\* where: {listId, content: {contains: text, mode: 'insensitive'}}
MatchingItems(items, listId, text) ==
    { i \in ItemsOf(items, listId) : ContainsInsensitive(items[i].content, text) }

\* an item service result: the ListItem table afterwards and the value returned
ItemResult(items, ret) == [items |-> items, ret |-> ret]

\* addListItem(listId, content): the row created (NoRow for null); the insert
\* fails for an unknown list
addListItem(ls, items, listId, content, ok) ==
    IF ok /\ listId \in 1..Len(ls)
    THEN ItemResult(Append(items, [listId |-> listId, content |-> trim(content),
                                   isCompleted |-> FALSE, completedAt |-> NoDate]),
                    Len(items) + 1)
    ELSE ItemResult(items, NoRow)

\* variant whose deleteMany looks for the exact content
removeListItemExact(items, listId, contentToRemove, ok) ==
    IF ok
    THEN ItemResult(SelectSeq(items, LAMBDA it :
                        ~(it.listId = listId /\ it.content = contentToRemove)),
                    Cardinality({ i \in ItemsOf(items, listId) :
                                    items[i].content = contentToRemove }))
    ELSE ItemResult(items, 0)

\* removeListItem(listId, contentToRemove): deleteMany and its count, 0 on failure
removeListItem(items, listId, contentToRemove, ok) ==
    IF ok
    THEN ItemResult(SelectSeq(items, LAMBDA it :
                        ~(it.listId = listId
                          /\ ContainsInsensitive(it.content, contentToRemove))),
                    Cardinality(MatchingItems(items, listId, contentToRemove)))
    ELSE ItemResult(items, 0)

\* rows the updateMany of markItemComplete selects
CompletableItems(items, listId, content) ==
    { i \in MatchingItems(items, listId, content) : ~items[i].isCompleted }

\* variant whose updateMany selects completed rows as well
markItemCompleteAll(items, listId, content, t, ok) ==
    IF ok
    THEN ItemResult([ i \in 1..Len(items) |->
                        IF i \in MatchingItems(items, listId, content)
                        THEN [items[i] EXCEPT !.isCompleted = TRUE, !.completedAt = <<t>>]
                        ELSE items[i] ],
                    Cardinality(MatchingItems(items, listId, content)))
    ELSE ItemResult(items, 0)

\* markItemComplete(listId, content): updateMany and its count, 0 on failure
markItemComplete(items, listId, content, t, ok) ==
    IF ok
    THEN ItemResult([ i \in 1..Len(items) |->
                        IF i \in CompletableItems(items, listId, content)
                        THEN [items[i] EXCEPT !.isCompleted = TRUE, !.completedAt = <<t>>]
                        ELSE items[i] ],
                    Cardinality(CompletableItems(items, listId, content)))
    ELSE ItemResult(items, 0)

\* a list service or handler call as its caller sees it: before and matched count
\* the items of the list and those matching the text when the call started; ret is
\* the row or the count returned
ListCall(op, userId, listId, query, text, ok, before, matched, ret, threw, reply) ==
    [op |-> op, userId |-> userId, listId |-> listId, query |-> query, text |-> text,
     ok |-> ok, before |-> before, matched |-> matched, ret |-> ret, threw |-> threw,
     reply |-> reply, flag |-> FALSE, answer |-> FALSE]

\* a call of shareList or hasListAccess: flag is canEdit or requireEdit, answer the
\* boolean returned
AccessCall(op, userId, listId, flag, ok, answer) ==
    [ListCall(op, userId, listId, Absent, Absent, ok, 0, 0, NoRow, FALSE, "none")
        EXCEPT !.flag = flag, !.answer = answer]

\* getList(userId, listNameOrType) called by itself
getListCall(userId, listNameOrType, ok) ==
    \E found \in getListPicks(lists, userId, listNameOrType) :
        LET r == getList(lists, userId, listNameOrType, found, ok)
        IN  /\ Len(r.lists) <= MaxLists
            /\ lists' = r.lists
            /\ listRet' = << ListCall("getList", userId, r.ret, listNameOrType, Absent,
                                      ok, 0, 0, r.ret, r.threw, "none") >>
            /\ UNCHANGED <<listItems, listShares, locVars, txVars, permVars, smsVars,
                           opsVars, intentVars, tripVars, httpVars, addVars>>

\* getUserAccessibleList(userId, listNameOrType) called by itself
getUserAccessibleListCall(userId, listNameOrType, ok) ==
    \E found \in getUserAccessibleListPicks(lists, listShares, userId, listNameOrType) :
        LET r == getUserAccessibleList(lists, userId, listNameOrType, found, ok)
        IN  /\ Len(r.lists) <= MaxLists
            /\ lists' = r.lists
            /\ listRet' = << ListCall("getUserAccessibleList", userId, r.ret,
                                      listNameOrType, Absent, ok, 0, 0, r.ret, r.threw,
                                      "none") >>
            /\ UNCHANGED <<listItems, listShares, locVars, txVars, permVars, smsVars,
                           opsVars, intentVars, tripVars, httpVars, addVars>>

\* handleListView(intent, user): getList, then the items of the list it found;
\* the reply names the list shown
handleListView(userId, listName, ok) ==
    \E found \in getListPicks(lists, userId, listName) :
        LET r == getList(lists, userId, listName, found, ok)
        IN  /\ Len(r.lists) <= MaxLists
            /\ lists' = r.lists
            /\ listRet' =
                 << ListCall("handleListView", userId, r.ret, listName, Absent, ok,
                             Cardinality(ItemsOf(listItems, r.ret)), 0, r.ret, r.threw,
                             IF r.threw THEN "none"
                             ELSE IF r.ret = NoRow
                             THEN IF listName # Absent THEN "listNotFound"
                                  ELSE "noGroceryList"
                             ELSE "listShown") >>
            /\ UNCHANGED <<listItems, listShares, locVars, txVars, permVars, smsVars,
                           opsVars, intentVars, tripVars, httpVars, addVars>>

\* handleListCreate(intent, user): createList with the default type
handleListCreate(userId, listName, ok) ==
    LET r == createList(lists, userId, listName, GENERAL_TYPE, ok)
    IN  /\ Len(r.lists) <= MaxLists
        /\ lists' = r.lists
        /\ listRet' = << ListCall("handleListCreate", userId, r.ret, <<listName>>, Absent,
                                  ok, 0, 0, r.ret, FALSE,
                                  IF r.ret = NoRow THEN "createTrouble"
                                  ELSE "listCreated") >>
        /\ UNCHANGED <<listItems, listShares, locVars, txVars, permVars, smsVars,
                       opsVars, intentVars, tripVars, httpVars, addVars>>

\* shareList(listId, sharedWithUserId, canEdit) called by itself
shareListCall(listId, sharedWithUserId, canEdit, createOk, updateOk) ==
    LET r == shareList(lists, listShares, listId, sharedWithUserId, canEdit,
                       createOk, updateOk)
    IN  /\ lists' = r.lists
        /\ listShares' = r.shares
        /\ listRet' = << AccessCall("shareList", sharedWithUserId, listId, canEdit,
                                    createOk /\ updateOk, r.ret) >>
        /\ UNCHANGED <<listItems, locVars, txVars, permVars, smsVars, opsVars,
                       intentVars, tripVars, httpVars, addVars>>

\* hasListAccess(list, userId, requireEdit) on a list loaded with or without its
\* shares; ok records whether they were included
hasListAccessCall(listId, userId, requireEdit, includeShares) ==
    /\ listId \in ListIds
    /\ listRet' = << AccessCall("hasListAccess", userId, listId, requireEdit,
                                includeShares,
                                hasListAccess(LoadedList(lists, listShares, listId,
                                                         includeShares),
                                              userId, requireEdit)) >>
    /\ UNCHANGED <<lists, listItems, listShares, locVars, txVars, permVars, smsVars,
                   opsVars, intentVars, tripVars, httpVars, addVars>>

\* an item call on the ListItem table: what it returned and the table afterwards
ItemCall(op, listId, text, ok, r) ==
    /\ listItems' = r.items
    /\ listRet' = << ListCall(op, "none", listId, Absent, <<text>>, ok,
                              Cardinality(ItemsOf(listItems, listId)),
                              Cardinality(MatchingItems(listItems, listId, text)),
                              r.ret, FALSE, "none") >>
    /\ UNCHANGED <<lists, listShares, locVars, txVars, permVars, smsVars, opsVars,
                   intentVars, tripVars, httpVars, addVars>>

\* addListItem(listId, content) called by itself
addListItemCall(listId, content, ok) ==
    LET r == addListItem(lists, listItems, listId, content, ok)
    IN  /\ Len(r.items) <= MaxItems
        /\ ItemCall("addListItem", listId, trim(content), ok, r)

\* removeListItem(listId, contentToRemove) called by itself
removeListItemCall(listId, contentToRemove, ok) ==
    ItemCall("removeListItem", listId, contentToRemove, ok,
             removeListItem(listItems, listId, contentToRemove, ok))

\* markItemComplete(listId, content) called by itself
markItemCompleteCall(listId, content, ok) ==
    ItemCall("markItemComplete", listId, content, ok,
             markItemComplete(listItems, listId, content, now, ok))

\* handleListRemoveItem(intent, user) with an item and no list name: the grocery
\* list of the user, then removeListItem; the reply tells how many rows went
handleListRemoveItem(userId, itemContent, listOk, ok) ==
    \E found \in getListPicks(lists, userId, Absent) :
        LET l == getList(lists, userId, Absent, found, listOk)
            r == IF l.ret = NoRow THEN ItemResult(listItems, 0)
                 ELSE removeListItem(listItems, l.ret, itemContent, ok)
        IN  /\ Len(l.lists) <= MaxLists
            /\ lists' = l.lists
            /\ listItems' = r.items
            /\ listRet' =
                 << ListCall("handleListRemoveItem", userId, l.ret, Absent,
                             <<itemContent>>, listOk /\ (l.ret = NoRow \/ ok),
                             Cardinality(ItemsOf(listItems, l.ret)),
                             Cardinality(MatchingItems(listItems, l.ret, itemContent)),
                             r.ret, l.threw,
                             IF l.threw THEN "none"
                             ELSE IF l.ret = NoRow THEN "noGroceryList"
                             ELSE IF r.ret = 0 THEN "itemNotFound"
                             ELSE IF r.ret = 1 THEN "itemRemoved"
                             ELSE "itemsRemoved") >>
            /\ UNCHANGED <<listShares, locVars, txVars, permVars, smsVars, opsVars,
                           intentVars, tripVars, httpVars, addVars>>

(***************************************************************************)
(* Concurrent handleListAddItem requests without a list name.  Express      *)
(* starts the handler of a webhook while the handler of another is waiting  *)
(* at an await, so the statements of two requests interleave at the         *)
(* database calls: the findFirst and the create of getOrCreateGroceryList   *)
(* and the create of addListItem.  The List model has no unique constraint  *)
(* on (ownerId, type).                                                      *)
(***************************************************************************)
IdleAdd == [pc |-> "idle", userId |-> "none", content |-> << >>, list |-> NoRow]

\* handleListAddItem is entered: getList(user.id, undefined) returns
\* getOrCreateGroceryList(userId), whose findFirst runs
AddFindFirst(p, userId, content) ==
    /\ addReq[p].pc \in {"idle", "done"}
    /\ \E found \in Picks(GroceryListIds(lists, userId)) :
          addReq' = [addReq EXCEPT ![p] =
                       [pc |-> IF found = NoRow THEN "create" ELSE "add",
                        userId |-> userId, content |-> content, list |-> found]]
    /\ UNCHANGED <<locVars, txVars, permVars, smsVars, opsVars, intentVars, tripVars, listVars, httpVars>>

\* if (!list) list = await prisma.list.create({data: {ownerId, name: 'Grocery List',
\* type: 'grocery', isShared: false}})
AddCreateList(p) ==
    /\ addReq[p].pc = "create"
    /\ Len(lists) < MaxLists
    /\ lists' = Append(lists, NewListRow(addReq[p].userId, GROCERY_NAME, GROCERY_TYPE))
    /\ addReq' = [addReq EXCEPT ![p].pc = "add", ![p].list = Len(lists) + 1]
    /\ UNCHANGED <<listItems, listShares, listRet, locVars, txVars, permVars, smsVars, opsVars, intentVars, tripVars, httpVars>>

\* addListItem(list.id, itemContent, quantity, user.id) and the reply
AddItemToList(p) ==
    /\ addReq[p].pc = "add"
    /\ Len(listItems) < MaxItems
    /\ listItems' = addListItem(lists, listItems, addReq[p].list, addReq[p].content,
                                TRUE).items
    /\ addReq' = [addReq EXCEPT ![p].pc = "done"]
    /\ UNCHANGED <<lists, listShares, listRet, locVars, txVars, permVars, smsVars, opsVars, intentVars, tripVars, httpVars>>

(***************************************************************************)
(* HTTP: /health and /status behind adminAuthMiddleware                    *)
(***************************************************************************)
BEARER == << "B", "e", "a", "r", "e", "r", " " >>

\* admin API keys, as their characters
AdminKeys == { << "k", "1" >>, << "k", "2" >> }

\* values of process.env.ADMIN_API_KEY: unset, the empty string, a key
AdminEnvs == {Absent, << << >> >>} \cup { <<k>> : k \in AdminKeys }

\* values of the Authorization header: none, a bare key, 'Bearer ' and a key,
\* 'Bearer ' alone, the empty string
AuthHeaders ==
    {Absent, <<BEARER>>, << << >> >>}
    \cup { <<k>> : k \in AdminKeys } \cup { <<BEARER \o k>> : k \in AdminKeys }

Routes == {"/health", "/status"}

\* String.prototype.startsWith
startsWith(str, prefix) ==
    Len(str) >= Len(prefix) /\ SubSeq(str, 1, Len(prefix)) = prefix

\* authHeader?.startsWith('Bearer ') ? authHeader.substring(7) : authHeader
ApiKeyOf(authHeader) ==
    IF authHeader = Absent THEN Absent
    ELSE IF startsWith(authHeader[1], BEARER)
    THEN << SubSeq(authHeader[1], Len(BEARER) + 1, Len(authHeader[1])) >>
    ELSE authHeader

\* !value for an optional string: undefined and '' are falsy
Falsy(value) == value = Absent \/ value = << << >> >>

\* the AppError adminAuthMiddleware throws, by its status code; 0 when it calls
\* next()
adminAuthMiddleware(authHeader, adminApiKey) ==
    IF Falsy(adminApiKey) THEN 500
    ELSE IF Falsy(ApiKeyOf(authHeader)) THEN 401
    ELSE IF ApiKeyOf(authHeader) # adminApiKey THEN 401
    ELSE 0

IdleHttp ==
    [pc |-> "idle", route |-> "none", authorization |-> Absent, adminApiKey |-> Absent,
     reached |-> FALSE, status |-> 0]

\* the deployment sets or unsets ADMIN_API_KEY between requests
HttpSetEnv(value) ==
    /\ httpReq.pc \in {"idle", "done"}
    /\ httpEnv' = value
    /\ UNCHANGED <<httpReq, locVars, txVars, permVars, smsVars, opsVars, intentVars, tripVars,
                   listVars, addVars>>

\* a GET request arrives
HttpReceive(route, authorization) ==
    /\ httpReq.pc \in {"idle", "done"}
    /\ httpReq' = [IdleHttp EXCEPT !.pc = "routed", !.route = route,
                                   !.authorization = authorization]
    /\ UNCHANGED <<httpEnv, locVars, txVars, permVars, smsVars, opsVars, intentVars,
                   tripVars, listVars, addVars>>

\* app.get('/health', asyncHandler(healthCheck))
healthCheck ==
    /\ httpReq.pc = "routed" /\ httpReq.route = "/health"
    /\ httpReq' = [httpReq EXCEPT !.pc = "done", !.status = 200]
    /\ UNCHANGED <<httpEnv, locVars, txVars, permVars, smsVars, opsVars, intentVars,
                   tripVars, listVars, addVars>>

\* app.get('/status', adminAuthMiddleware, ...): the middleware calls next() or
\* throws, and errorHandler answers with the status code of the AppError
HttpAdminAuth ==
    /\ httpReq.pc = "routed" /\ httpReq.route = "/status"
    /\ LET thrown == adminAuthMiddleware(httpReq.authorization, httpEnv)
       IN  httpReq' = IF thrown = 0
                      THEN [httpReq EXCEPT !.pc = "statusCheck", !.adminApiKey = httpEnv]
                      ELSE [httpReq EXCEPT !.pc = "done", !.adminApiKey = httpEnv,
                                           !.status = thrown]
    /\ UNCHANGED <<httpEnv, locVars, txVars, permVars, smsVars, opsVars, intentVars,
                   tripVars, listVars, addVars>>

\* statusCheck(req, res): 200 when every check passes, else 503
statusCheck(isHealthy) ==
    /\ httpReq.pc = "statusCheck"
    /\ httpReq' = [httpReq EXCEPT !.pc = "done", !.reached = TRUE,
                                  !.status = IF isHealthy THEN 200 ELSE 503]
    /\ UNCHANGED <<httpEnv, locVars, txVars, permVars, smsVars, opsVars, intentVars,
                   tripVars, listVars, addVars>>

(***************************************************************************)
(* Specifications                                                          *)
(***************************************************************************)
Init ==
    /\ locations = << >>
    /\ locRet = [op |-> "none", userId |-> "none", ret |-> NoRow]
    /\ locReply = << >>
    /\ tx = [p \in Procs |-> IdleTx]
    /\ permissions = {}
    /\ now = 0
    /\ permCheck = << >>
    /\ messageLog = << >>
    /\ smsPc = "idle"
    /\ smsReq = IdleReq
    /\ outbox = << >>
    /\ received = 0
    /\ permCall = << >>
    /\ intentRet = << >>
    /\ trips = << >>
    /\ tripRet = << >>
    /\ lists = << >>
    /\ listItems = << >>
    /\ listShares = {}
    /\ listRet = << >>
    /\ httpEnv = << >>
    /\ httpReq = IdleHttp
    /\ addReq = [p \in Procs |-> IdleAdd]

\* sequential location updates
NextLoc ==
    \/ \E u \in UserIds, lat \in Coords, lng \in Coords, ok \in BOOLEAN :
          updateLocation(u, lat, lng, "none", ok)
    \/ \E u \in UserIds, geo \in GeocodeResults \cup GeocodeFailures, ok \in BOOLEAN :
          updateLocationFromAddress(u, geo, ok)
    \/ \E u \in UserIds, geo \in GeocodeResults \cup GeocodeFailures, ok \in BOOLEAN :
          handleLocationUpdate(u, TRUE, geo, ok)
    \/ \E u \in UserIds, geo \in GeocodeFailures :
          geo.status = "none" /\ handleLocationUpdate(u, FALSE, geo, TRUE)

SpecLoc == Init /\ [][NextLoc]_vars

\* concurrent location updates
NextTx ==
    \/ \E p \in Procs, u \in UserIds, lat \in Coords : TxBegin(p, u, lat)
    \/ \E p \in Procs : TxUpdateManyScan(p)
    \/ \E p \in Procs : TxUpdateManyApply(p)
    \/ \E p \in Procs : TxCreate(p)
    \/ \E p \in Procs : TxCommit(p)
    \/ \E p \in Procs : TxRollback(p)

SpecTx == Init /\ [][NextTx]_vars

\* permission guard
NextPerm ==
    \/ \E g \in UserIds, u \in UserIds, k \in PermKinds, e \in ExpiryInputs :
          grantPermission(g, u, k, e, TRUE)
    \/ \E g \in UserIds, u \in UserIds, k \in PermKinds :
          grantPermission(g, u, k, NoDate, FALSE)
    \/ \E g \in UserIds, u \in UserIds, k \in PermKinds, ok \in BOOLEAN :
          revokePermission(g, u, k, ok)
    \/ Tick
    \/ \E r \in UserRows, t \in UserIds, k \in PermKinds, f \in BOOLEAN :
          CheckPermission(r, t, k, f)
    \/ PermReturn

SpecPerm == Init /\ [][NextPerm]_vars

\* grants and revokes as their callers see them, with the guard consulted in between;
\* the subjects are the family members, the grantor is any other user
\* <<grantor, subject, kind>> of the calls
OpsTriples ==
    { <<g, u, k>> : g \in UserIds, u \in NonPrimaryIds, k \in PermKinds } \
    { <<u, u, k>> : u \in NonPrimaryIds, k \in PermKinds }

NextPermOps ==
    \/ \E c \in OpsTriples, e \in ExpiryInputs :
          grantPermissionCall(c[1], c[2], c[3], e, TRUE)
    \/ \E c \in OpsTriples : grantPermissionCall(c[1], c[2], c[3], NoDate, FALSE)
    \/ \E c \in OpsTriples, ok \in BOOLEAN : revokePermissionCall(c[1], c[2], c[3], ok)
    \/ PermCallReturn
    \/ permCall = <<>> /\ Tick
    \/ \E r \in UserRows, t \in UserIds, k \in PermKinds, f \in BOOLEAN :
          /\ permCall = <<>>
          /\ r.id \in NonPrimaryIds \ {t}
          /\ CheckPermission(r, t, k, f)
    \/ PermReturn

SpecPermOps == Init /\ [][NextPermOps]_vars

\* intent recognition on its own
NextIntent ==
    \E m \in IntentMessages, r \in ClassifierResponses : RecognizeCall(m, r)

SpecIntent == Init /\ [][NextIntent]_vars

\* trips: the service functions and the handlers, one call at a time, while the
\* clock runs and the users report where they are
NextTrip ==
    \/ \E u \in TripUsers, g \in TripGeocodes, d \in DirectionsOutcomes,
          locOk \in BOOLEAN, ok \in BOOLEAN :
          /\ g.status # "ok" => (d = DirectionsNone /\ locOk /\ ok)
          /\ handleTripStart(u, TRUE, g, d, locOk, ok)
    \/ \E u \in TripUsers : handleTripStart(u, FALSE, NoGeocode, NoDirections, TRUE, TRUE)
    \/ \E id \in 1..(MaxTrips + 1), ok \in BOOLEAN : cancelTrip(id, ok)
    \/ \E u \in TripUsers, tripOk \in BOOLEAN, ok \in BOOLEAN :
          handleTripCancel(u, tripOk, ok)
    \/ \E u \in TripUsers, tripOk \in BOOLEAN, locOk \in BOOLEAN,
          d \in DirectionsOutcomes : handleEtaQuery(u, tripOk, locOk, d)
    \/ \E u \in TripUsers, lat \in Coords :
          /\ CurrentLocationIds(locations, u) = {}
          /\ updateLocation(u, lat, lat, "none", TRUE)
    \/ Tick

SpecTrip == Init /\ [][NextTrip]_vars

\* list items: the users resolve their grocery lists, then add, remove and
\* complete items
NextListItems ==
    \/ \E u \in ListUsers, ok \in BOOLEAN : getListCall(u, Absent, ok)
    \/ \E l \in ListIds, c \in ItemContents, ok \in BOOLEAN : addListItemCall(l, c, ok)
    \/ \E l \in ListIds, t \in ItemSearches, ok \in BOOLEAN : removeListItemCall(l, t, ok)
    \/ \E l \in ListIds, t \in ItemSearches, ok \in BOOLEAN :
          markItemCompleteCall(l, t, ok)
    \/ \E u \in ListUsers, t \in ItemSearches, listOk \in BOOLEAN, ok \in BOOLEAN :
          /\ ~listOk => ok
          /\ handleListRemoveItem(u, t, listOk, ok)

SpecListItems == Init /\ [][NextListItems]_vars

\* list resolution: the users create and share lists, and look lists up by name
\* or type
NextListAccess ==
    \/ \E u \in ListUsers, q \in {Absent} \cup { <<x>> : x \in ListQueries },
          ok \in BOOLEAN : getListCall(u, q, ok)
    \/ \E u \in ListUsers, q \in {Absent} \cup { <<x>> : x \in ListQueries },
          ok \in BOOLEAN : getUserAccessibleListCall(u, q, ok)
    \/ \E u \in ListUsers, q \in {Absent} \cup { <<x>> : x \in ListQueries },
          ok \in BOOLEAN : handleListView(u, q, ok)
    \/ \E u \in ListOwners, n \in ListNames : handleListCreate(u, n, TRUE)
    \/ \E l \in ListIds, u \in ListUsers, canEdit \in BOOLEAN :
          /\ u # lists[l].ownerId
          /\ shareListCall(l, u, canEdit, TRUE, TRUE)

SpecListAccess == Init /\ [][NextListAccess]_vars

\* list sharing: lists are created and shared, and hasListAccess is asked about
\* them
NextListShare ==
    \/ \E u \in ListUsers : getListCall(u, Absent, TRUE)
    \/ \E u \in ListOwners, n \in ListNames, ok \in BOOLEAN : handleListCreate(u, n, ok)
    \/ \E l \in ListIds, u \in ListUsers, canEdit \in BOOLEAN,
          createOk \in BOOLEAN, updateOk \in BOOLEAN :
          /\ u # lists[l].ownerId
          /\ ~createOk => updateOk
          /\ shareListCall(l, u, canEdit, createOk, updateOk)
    \/ \E l \in ListIds, u \in ListUsers, requireEdit \in BOOLEAN,
          includeShares \in BOOLEAN : hasListAccessCall(l, u, requireEdit, includeShares)

SpecListShare == Init /\ [][NextListShare]_vars

\* the HTTP endpoints, one request at a time
NextHttp ==
    \/ \E v \in AdminEnvs : HttpSetEnv(v)
    \/ \E r \in Routes, a \in AuthHeaders : HttpReceive(r, a)
    \/ healthCheck
    \/ HttpAdminAuth
    \/ \E isHealthy \in BOOLEAN : statusCheck(isHealthy)

SpecHttp == Init /\ [][NextHttp]_vars

\* inbound SMS pipeline
SmsStep ==
    \/ \E ok \in BOOLEAN : SmsLogInbound(ok)
    \/ \E ok \in BOOLEAN : SmsLookup(ok)
    \/ \E o \in SendOutcomes : SmsReject(o)
    \/ \E r \in ClassifierResponses : SmsClassify(r)
    \/ \E ok \in BOOLEAN : SmsBackfill(ok)
    \/ \E o \in AllHandlerOutcomes : SmsHandle(o)
    \/ \E o \in SendOutcomes : SmsReply(o)
    \/ \E o \in SendOutcomes : SmsCatch(o)

NextSms ==
    \/ \E from \in FromPhones : SmsReceive(from)
    \/ SmsStep

SpecSms == Init /\ [][NextSms]_vars

\* incoming messages together with the status callbacks of Twilio, which arrive
\* at any time and in any number
NextSmsStatus ==
    \/ NextSms
    \/ \E sid \in StatusSids, st \in MessageStatuses, ok \in BOOLEAN :
          handleSmsStatus(sid, st, ok)

SpecSmsStatus == Init /\ [][NextSmsStatus]_vars

\* the handlers that read and write the rows of their caller. One user travels
\* and asks; the other updates its location and has a grocery list. Storage works.
NextIsolation ==
    \/ \E u \in ListUsers, lat \in Coords : updateLocation(u, lat, lat, "none", TRUE)
    \/ \E u \in TripUsers, c \in ContactNames : handleLocationQuery(u, c, TRUE)
    \/ \E u \in TripUsers, g \in TripGeocodes, d \in DirectionsResults :
          g.status = "ok" /\ handleTripStart(u, TRUE, g, d, TRUE, TRUE)
    \/ \E u \in TripUsers : handleTripCancel(u, TRUE, TRUE)
    \/ \E u \in TripUsers, d \in DirectionsResults : handleEtaQuery(u, TRUE, TRUE, d)
    \/ \E u \in ListUsers, q \in {Absent} \cup { <<n>> : n \in ListQueries } :
          (u \notin TripUsers => q = Absent) /\ handleListView(u, q, TRUE)

SpecIsolation == Init /\ [][NextIsolation]_vars

\* concurrent requests that add an item to the default list
NextAddItem ==
    \/ \E p \in Procs, u \in ListUsers, c \in ItemContents : AddFindFirst(p, u, c)
    \/ \E p \in Procs : AddCreateList(p)
    \/ \E p \in Procs : AddItemToList(p)

SpecAddItem == Init /\ [][NextAddItem]_vars

\* each request runs to completion once accepted
SpecSmsFair == SpecSms /\ WF_vars(SmsStep)

(***************************************************************************)
(* Properties                                                               *)
(***************************************************************************)
LocationsOf(userId) == { i \in LocationIds : locations[i].userId = userId }

\* C1: after any sequence of updateLocation and updateLocationFromAddress calls,
\* successful or failed, every user has at most one Location row with
\* isCurrent = true.
C1_AtMostOneCurrent ==
    \A u \in UserIds : Cardinality(CurrentLocationIds(locations, u)) <= 1

\* a user with two rows, the older one flipped by the successful call just made
C1_Witness ==
    \E u \in UserIds :
        /\ Cardinality(LocationsOf(u)) = 2
        /\ Cardinality(CurrentLocationIds(locations, u)) = 1
        /\ locRet.userId = u
        /\ locRet.ret = Len(locations)
        /\ locations[locRet.ret].isCurrent

\* C2: with two updateLocation transactions of one user running concurrently, no
\* interleaving commits two Location rows of that user that are both flagged
\* isCurrent = true.
C2_NoTwoCurrentRows ==
    \A i \in LocationIds, j \in LocationIds :
        (i # j /\ locations[i].userId = locations[j].userId)
            => ~(locations[i].isCurrent /\ locations[j].isCurrent)

Unauthorized(phone) == \A u \in UserRows : u.phoneNumber # phone

AttemptsFor(sid) == SelectSeq(outbox, LAMBDA a : a.sid = sid)

InboundRowsFor(sid) ==
    { i \in 1..Len(messageLog) : /\ messageLog[i].twilioSid = <<"in", sid>>
                                 /\ messageLog[i].direction = "inbound" }

RequestDone == smsPc = "done"

\* C3 as stated: every message of an unknown sender is answered with exactly the
\* rejection text, its inbound row is written, and neither recognizeIntent nor
\* handleIntent is invoked.
C3_Original ==
    (RequestDone /\ Unauthorized(smsReq.fromPhone)) =>
        /\ Len(AttemptsFor(smsReq.Sid)) = 1
        /\ AttemptsFor(smsReq.Sid)[1].body = REJECTION_TEXT
        /\ InboundRowsFor(smsReq.Sid) # {}
        /\ ~smsReq.classified
        /\ ~smsReq.handled

\* C3 amended: a message of an unknown sender never reaches recognizeIntent or
\* handleIntent; when the inbound log write and the sender lookup succeed, the
\* one reply is exactly the rejection text, sent to the normalized number, and
\* the inbound row exists; when one of them fails, the one reply is the
\* controller's fixed apology.
C3_UnauthorizedShortCircuit ==
    (smsPc # "idle" /\ Unauthorized(smsReq.fromPhone)) =>
        /\ ~smsReq.classified
        /\ ~smsReq.handled
        /\ smsPc \notin {"classify", "backfill", "handle", "reply"}
        /\ RequestDone =>
             /\ Len(AttemptsFor(smsReq.Sid)) = 1
             /\ IF smsReq.logged /\ smsReq.lookedUp
                THEN /\ AttemptsFor(smsReq.Sid)[1].body = REJECTION_TEXT
                     /\ AttemptsFor(smsReq.Sid)[1].to = smsReq.fromPhone
                     /\ InboundRowsFor(smsReq.Sid) # {}
                ELSE AttemptsFor(smsReq.Sid)[1].body = CONTROLLER_APOLOGY

\* an unknown sender has been answered with the rejection text
C3_Witness ==
    /\ RequestDone
    /\ Unauthorized(smsReq.fromPhone)
    /\ smsReq.logged /\ smsReq.lookedUp
    /\ AttemptsFor(smsReq.Sid) # << >>
    /\ AttemptsFor(smsReq.Sid)[1].body = REJECTION_TEXT

\* C4: whenever the selected handler throws, handleIntent does not throw (the
\* controller goes on to its reply step, not to its catch block) and what it
\* returns is the fixed apology, not the error.
C4_HandlerErrorBecomesApology ==
    (smsReq.handled /\ smsReq.handlerThrew) =>
        /\ smsPc \in {"reply", "done"}
        /\ smsReq.response = ROUTER_APOLOGY
        /\ smsReq.response.kind # "error"
        /\ \A i \in 1..Len(AttemptsFor(smsReq.Sid)) :
               AttemptsFor(smsReq.Sid)[i].body = ROUTER_APOLOGY

\* a handler threw and the apology was returned
C4_Witness ==
    /\ smsReq.handled /\ smsReq.handlerThrew
    /\ smsPc = "reply"
    /\ smsReq.response = ROUTER_APOLOGY
    /\ HandlerFor(smsReq.intent) = "handleTripStart"

ReplyAttempted(n) == \E i \in 1..Len(outbox) : outbox[i].sid = n

\* C5: every accepted message eventually has a send attempted, whichever step
\* fails, and no body handed to the channel is text of an error.
C5_ReplyAlwaysAttempted ==
    /\ \A n \in 1..MaxMessages :
           (received = n /\ smsPc = "log") ~> ReplyAttempted(n)
    /\ [](\A i \in 1..Len(outbox) : outbox[i].body.kind \in {"fixed", "handler"})

\* the back-fill failed after classification and the apology send was attempted
C5_Witness ==
    /\ RequestDone
    /\ smsReq.classified /\ ~smsReq.handled
    /\ ReplyAttempted(smsReq.Sid)
    /\ outbox[Len(outbox)].body = CONTROLLER_APOLOGY
    /\ ~outbox[Len(outbox)].accepted

Checked == permCheck # << >>
Call == permCheck[1]

KeyRows(c) ==
    { r \in permissions : /\ r.userId = c.requestingUser.id
                          /\ r.grantedByUserId = c.targetUserId
                          /\ r.permissionType = c.permissionType }

\* C6: hasPermission returns true whenever the requesting user is the target,
\* whatever the Permission table holds and also when the lookup would fail.
C6_SelfAccessAlwaysAllowed ==
    (Checked /\ Call.requestingUser.id = Call.targetUserId) =>
        Call.result = [threw |-> FALSE, value |-> TRUE]

\* a non-primary user checks itself while its own row is revoked and storage fails
C6_Witness ==
    /\ Checked
    /\ ~Call.requestingUser.isPrimaryUser
    /\ Call.requestingUser.id = Call.targetUserId
    /\ Call.lookupFails
    /\ \E r \in KeyRows(Call) : ~r.isActive
    /\ Call.result.value

\* C7: hasPermission returns true for every primary requesting user, for every
\* target and kind, also when the matching row is absent, revoked or expired.
C7_PrimaryAlwaysAllowed ==
    (Checked /\ Call.requestingUser.isPrimaryUser) =>
        Call.result = [threw |-> FALSE, value |-> TRUE]

\* the primary user checks another user while its row is revoked and expired
C7_Witness ==
    /\ Checked
    /\ Call.requestingUser.isPrimaryUser
    /\ Call.requestingUser.id # Call.targetUserId
    /\ \E r \in KeyRows(Call) :
           ~r.isActive /\ r.expiresAt # NoDate /\ r.expiresAt[1] < now
    /\ Call.result.value

NonPrimaryOther(c) ==
    ~c.requestingUser.isPrimaryUser /\ c.requestingUser.id # c.targetUserId

\* C8: for a non-primary requester other than the target, hasPermission returns
\* false whenever the row of (requester, target, kind) is absent or inactive,
\* whatever its expiresAt and whatever other rows exist.
C8_DeniedWithoutActiveRow ==
    (Checked /\ NonPrimaryOther(Call) /\ ~(\E r \in KeyRows(Call) : r.isActive)) =>
        Call.result = [threw |-> FALSE, value |-> FALSE]

\* denied although the target holds an active, unexpired grant from the requester
\* (the reversed direction)
C8_Witness ==
    /\ Checked
    /\ NonPrimaryOther(Call)
    /\ ~Call.lookupFails
    /\ KeyRows(Call) = {}
    /\ \E r \in permissions :
           /\ r.userId = Call.targetUserId
           /\ r.grantedByUserId = Call.requestingUser.id
           /\ r.permissionType = Call.permissionType
           /\ r.isActive /\ r.expiresAt = NoDate
    /\ ~Call.result.value

ActiveDatedRow(c) ==
    Checked /\ NonPrimaryOther(c) /\ ~c.lookupFails
    /\ \E r \in KeyRows(c) : r.isActive /\ r.expiresAt # NoDate

ExpiresAt(c) == (CHOOSE r \in KeyRows(c) : TRUE).expiresAt[1]

\* C9 as stated: with an active row, denied when expiresAt is before now, denied
\* when expiresAt equals now, allowed when expiresAt is after now.
C9_Original ==
    ActiveDatedRow(Call) =>
        Call.result.value = (ExpiresAt(Call) > now)

\* C9 amended: with an active row, denied when expiresAt is before now, allowed
\* when expiresAt equals now or is after it.
C9_ExpiryStrictlyBefore ==
    ActiveDatedRow(Call) =>
        Call.result = [threw |-> FALSE, value |-> (ExpiresAt(Call) >= now)]

\* the check made at the instant of expiry is allowed
C9_Witness ==
    /\ ActiveDatedRow(Call)
    /\ ExpiresAt(Call) = now
    /\ Call.result.value

\* C10: when the Permission lookup fails, hasPermission for a non-primary
\* requester other than the target returns false and does not throw.
C10_LookupFailureDenies ==
    (Checked /\ NonPrimaryOther(Call) /\ Call.lookupFails) =>
        Call.result = [threw |-> FALSE, value |-> FALSE]

\* the lookup failed while an active, undated row would have allowed the call
C10_Witness ==
    /\ Checked
    /\ NonPrimaryOther(Call)
    /\ Call.lookupFails
    /\ \E r \in KeyRows(Call) : r.isActive /\ r.expiresAt = NoDate
    /\ ~Call.result.threw /\ ~Call.result.value

\* the grantPermission / revokePermission call that has just returned true
PermCalled(op) == permCall # << >> /\ permCall[1].op = op /\ permCall[1].ret
OpCall == permCall[1]

\* the rows of the call's (subject, grantor, kind) as the table now holds them
OpRows ==
    PermRowsAt(permissions, OpCall.userId, OpCall.grantedByUserId, OpCall.permissionType)

InactiveUntilGrant ==
    \A r \in permissions :
        ~r.isActive =>
            \/ r \in permissions'
            \/ /\ permCall' # << >>
               /\ permCall'[1].op = "grantPermission" /\ permCall'[1].ret
               /\ permCall'[1].userId = r.userId
               /\ permCall'[1].grantedByUserId = r.grantedByUserId
               /\ permCall'[1].permissionType = r.permissionType

\* C12: a revokePermission that returns true on a triple that had a row keeps the
\* row and leaves it inactive; the row stays inactive until a grantPermission of
\* the same triple; while it is inactive, hasPermission(subject, grantor, kind)
\* returns false for a non-primary subject other than the grantor.
C12_RevokedStaysDenied ==
    /\ [](PermCalled("revokePermission") /\ OpCall.before # {} =>
             OpRows # {} /\ \A r \in OpRows : ~r.isActive)
    /\ [][InactiveUntilGrant]_vars
    /\ []((Checked /\ NonPrimaryOther(Call) /\ \E r \in KeyRows(Call) : ~r.isActive) =>
             Call.result = [threw |-> FALSE, value |-> FALSE])

\* hasPermission is consulted on a revoked triple whose row would otherwise allow
C12_Witness ==
    /\ Checked
    /\ NonPrimaryOther(Call)
    /\ ~Call.lookupFails
    /\ \E r \in KeyRows(Call) : ~r.isActive /\ r.expiresAt = NoDate
    /\ ~Call.result.value

\* C13: the Permission table never holds two rows of one (subject, grantor, kind),
\* and a grantPermission of a triple that already has a row, active or revoked,
\* leaves the triple with that one row.
C13_OneRowPerTriple ==
    /\ \A r1 \in permissions, r2 \in permissions :
          ( /\ r1.userId = r2.userId
            /\ r1.grantedByUserId = r2.grantedByUserId
            /\ r1.permissionType = r2.permissionType ) => r1 = r2
    /\ PermCalled("grantPermission") /\ OpCall.before # {} => Cardinality(OpRows) = 1

\* a revoked triple has been granted again
C13_Witness ==
    /\ PermCalled("grantPermission")
    /\ \E r \in OpCall.before : ~r.isActive
    /\ \E r \in OpRows : r.isActive
    /\ Cardinality(OpRows) = 1

\* C14: a grantPermission with expiresAt e2 on a triple whose row holds another
\* expiresAt e1 leaves the row active with expiresAt = e2.
C14_RegrantReplacesExpiry ==
    ( /\ PermCalled("grantPermission")
      /\ OpCall.before # {}
      /\ \A r \in OpCall.before : r.expiresAt # OpCall.expiresAt ) =>
        \A r \in OpRows : r.isActive /\ r.expiresAt = OpCall.expiresAt

\* the classification failed: the API call was rejected or timed out, the first
\* content block is not text, the text does not parse, or the parsed value is not
\* an object carrying intent, confidence and entities
ClassificationFailed(response) ==
    \/ response.api # "ok"
    \/ response.type # "text"
    \/ ~response.parses
    \/ response.json.shape # "object"
    \/ response.json.intent = Absent
    \/ response.json.confidence = Absent
    \/ response.json.entities = Absent

\* C15: recognizeIntent never throws, and on every failure of the classification
\* it returns exactly {intent: UNKNOWN, confidence: 0, entities: {}, rawMessage}.
C15_FailureYieldsFallback ==
    \A i \in 1..Len(intentRet) :
        /\ ~intentRet[i].result.threw
        /\ ClassificationFailed(intentRet[i].response) =>
              intentRet[i].result.value = IntentFallback(intentRet[i].message)

\* the step is a call of one of `ops`
TripStep(ops) ==
    /\ tripRet' # << >>
    /\ tripRet'[1].op \in ops
    /\ <<trips, tripRet>>' # <<trips, tripRet>>

Terminal(trip) == trip.status \in {"completed", "cancelled"}

\* C16: every Trip is created active, its status is always active, completed or
\* cancelled, and no step changes the status or completedAt of a Trip that is
\* completed or cancelled.
C16_TerminalTripsFrozen ==
    /\ [](\A i \in 1..Len(trips) : trips[i].status \in TripStatus)
    /\ [][ /\ Len(trips') >= Len(trips)
           /\ \A i \in (Len(trips) + 1)..Len(trips') : trips'[i].status = "active"
           /\ \A i \in 1..Len(trips) :
                 Terminal(trips[i]) =>
                     /\ trips'[i].status = trips[i].status
                     /\ trips'[i].completedAt = trips[i].completedAt ]_vars

\* C17: handleTripCancel with an active trip (and working storage) leaves that trip
\* cancelled with completedAt stamped; handleTripCancel without an active trip
\* changes no Trip row and replies with the nothing-to-cancel text; cancelTrip of
\* an id that has no row, or whose trip is not active, changes no Trip row and is
\* not reported as a failure.
C17_CancelOutcomes ==
    [][ /\ ( /\ TripStep({"handleTripCancel"})
             /\ ActiveTripIds(trips, tripRet'[1].userId) # {}
             /\ tripRet'[1].locOk /\ tripRet'[1].ok ) =>
               LET k == getActiveTrip(trips, tripRet'[1].userId, TRUE)
               IN  /\ trips'[k].status = "cancelled"
                   /\ trips'[k].completedAt = <<now>>
        /\ ( /\ TripStep({"handleTripCancel"})
             /\ ActiveTripIds(trips, tripRet'[1].userId) = {} ) =>
               trips' = trips /\ tripRet'[1].reply = NO_TRIP_TO_CANCEL
        /\ ( /\ TripStep({"cancelTrip"})
             /\ tripRet'[1].ok
             /\ \/ tripRet'[1].tripId \notin 1..Len(trips)
                \/ trips[tripRet'[1].tripId].status # "active" ) =>
               trips' = trips /\ tripRet'[1].ret ]_vars

\* C18: when handleTripCancel has just cancelled the trip that was started last,
\* that trip is cancelled with completedAt set, and the same user's next
\* handleEtaQuery (its getActiveTrip query succeeding) replies that there is no
\* active trip.
C18_StartCancelThenNoActiveTrip ==
    [][ ( /\ tripRet # << >>
          /\ tripRet[1].op = "handleTripCancel"
          /\ tripRet[1].ret
          /\ tripRet[1].tripId = Len(trips)
          /\ TripStep({"handleEtaQuery"})
          /\ tripRet'[1].userId = tripRet[1].userId
          /\ tripRet'[1].ok ) =>
            /\ trips[Len(trips)].status = "cancelled"
            /\ trips[Len(trips)].completedAt # NoDate
            /\ tripRet'[1].reply = NO_ACTIVE_TRIP ]_vars

\* C19: no user ever has two Trips with status active.
C19_AtMostOneActiveTrip ==
    \A u \in TripUsers : Cardinality(ActiveTripIds(trips, u)) <= 1

\* what C20 says of a trip start: one Trip more, active, the caller's, returned to
\* the handler; estimatedArrival set exactly when the user had a current Location
\* and getDirections returned a route; no ETA clause in the reply without it
OneActiveTripPersisted ==
    LET call == tripRet'[1]
        new == trips'[Len(trips')]
    IN  /\ Len(trips') = Len(trips) + 1
        /\ SubSeq(trips', 1, Len(trips)) = trips
        /\ call.tripId = Len(trips')
        /\ new.userId = call.userId
        /\ new.status = "active"
        /\ new.estimatedArrival # NoDate <=>
              (CurrentLocationIds(locations, call.userId) # {} /\ call.directions = "ok")
        /\ call.reply.kind = "tripStarted"
        /\ new.estimatedArrival = NoDate => call.reply.eta = Absent

C21_GeocodeNoneAborts ==
    [][ (TripStep({"handleTripStart"}) /\ tripRet'[1].geo = "none") =>
            /\ trips' = trips
            /\ locations' = locations
            /\ ~tripRet'[1].routed
            /\ tripRet'[1].tripId = NoRow
            /\ ~tripRet'[1].ret ]_vars

\* a trip start whose destination did not geocode, for a user who has a current
\* Location and an earlier Trip
C21_Witness ==
    /\ tripRet # << >>
    /\ tripRet[1].op = "handleTripStart"
    /\ tripRet[1].geo = "none"
    /\ tripRet[1].reply = TRIP_NOT_FOUND
    /\ Len(trips) > 0
    /\ CurrentLocationIds(locations, tripRet[1].userId) # {}

\* a handleLocationUpdate call has just been made
LocationHandlerStep == locReply' # << >> /\ locVars' # locVars

\* C22: when geocodeAddress returns none for the address, updateLocationFromAddress
\* writes no Location row, every row keeps its isCurrent flag, and the reply of
\* handleLocationUpdate is the could-not-find-the-location text.
C22_GeocodeNoneKeepsCurrent ==
    [][ (LocationHandlerStep /\ locReply'[1].geo = "none") =>
            /\ locations' = locations
            /\ locRet'.ret = NoRow
            /\ locReply'[1].reply = LOCATION_NOT_FOUND ]_vars

\* a location update whose address did not geocode, made by a user who has a
\* current Location
C22_Witness ==
    /\ locReply # << >>
    /\ locReply[1].geo = "none"
    /\ locReply[1].reply = LOCATION_NOT_FOUND
    /\ locRet.op = "updateLocationFromAddress" /\ locRet.ret = NoRow
    /\ CurrentLocationIds(locations, locReply[1].userId) # {}

\* C23: whenever the user has an active trip and a current Location (and both
\* queries succeed), the ETA query calls getDirections and reports the recomputed
\* arrival, or the trouble text when no route comes back, whatever the trip's
\* stored estimatedArrival.
C23_EtaQueryRecomputes ==
    [][ ( /\ TripStep({"handleEtaQuery"})
          /\ tripRet'[1].ok /\ tripRet'[1].locOk
          /\ ActiveTripIds(trips, tripRet'[1].userId) # {}
          /\ CurrentLocationIds(locations, tripRet'[1].userId) # {} ) =>
            /\ tripRet'[1].routed
            /\ tripRet'[1].reply.kind \in {"eta", "etaTrouble"} ]_vars

\* a list call of one of the given operations has just been made
ListStep(ops) ==
    /\ listRet' # << >>
    /\ listRet'[1].op \in ops
    /\ listVars' # listVars

MILK == << "m", "i", "l", "k" >>

\* removeListItem(list, "milk") has just been made, with success, right after a
\* successful addListItem(list, "milk")
RemoveMilkAfterAdd ==
    /\ ListStep({"removeListItem"})
    /\ listRet'[1].text = <<MILK>> /\ listRet'[1].ok
    /\ listRet # << >>
    /\ listRet[1].op = "addListItem" /\ listRet[1].ret # NoRow
    /\ listRet[1].listId = listRet'[1].listId
    /\ listRet[1].text = <<MILK>>

\* a removal of "milk", by the service or by the handler, has just been made right
\* after a successful removal of "milk" from the same list
RemoveMilkAgain ==
    /\ ListStep({"removeListItem", "handleListRemoveItem"})
    /\ listRet'[1].text = <<MILK>>
    /\ listRet # << >>
    /\ listRet[1].op \in {"removeListItem", "handleListRemoveItem"}
    /\ listRet[1].ok /\ ~listRet[1].threw
    /\ listRet[1].listId = listRet'[1].listId
    /\ listRet[1].text = <<MILK>>

C24_Original ==
    [][ RemoveMilkAfterAdd =>
            Cardinality(ItemsOf(listItems', listRet'[1].listId)) = listRet[1].before ]_vars

\* C24: a successful add of "milk" followed by a successful removal of "milk" from
\* the same list deletes the new item and every earlier item of the list whose
\* content contains "milk" case-insensitively, so the item count returns to its
\* value before the add exactly when no earlier item matched; removing "milk"
\* again returns 0 and the handler reports that nothing was found.
C24_AddRemoveRoundTrip ==
    /\ [][ RemoveMilkAfterAdd =>
             /\ listRet'[1].ret = listRet[1].matched + 1
             /\ Cardinality(ItemsOf(listItems', listRet'[1].listId)) =
                   listRet[1].before - listRet[1].matched
             /\ MatchingItems(listItems', listRet'[1].listId, MILK) = {} ]_vars
    /\ [][ RemoveMilkAgain =>
             /\ listRet'[1].ret = 0
             /\ listItems' = listItems
             /\ listRet'[1].op = "handleListRemoveItem" =>
                    listRet'[1].threw \/ listRet'[1].reply = "itemNotFound" ]_vars

\* "milk" has been removed from a list that held it twice, one of them just added
C24_Witness ==
    /\ listRet # << >>
    /\ listRet[1].op = "removeListItem"
    /\ listRet[1].text = <<MILK>> /\ listRet[1].ok
    /\ listRet[1].before = 2 /\ listRet[1].ret = 2
    /\ ItemsOf(listItems, listRet[1].listId) = {}

\* the rows of the lists other than listId are what they were, in the same order
OtherListsUntouched(listId) ==
    SelectSeq(listItems', LAMBDA it : it.listId # listId) =
        SelectSeq(listItems, LAMBDA it : it.listId # listId)

\* a removeListItem or markItemComplete call that met no storage failure has just
\* been made
BulkItemStep(op) == ListStep({op}) /\ listRet'[1].ok

C25_Original ==
    /\ [][ BulkItemStep("removeListItem") =>
             /\ listRet'[1].ret =
                   Cardinality(MatchingItems(listItems, listRet'[1].listId,
                                             listRet'[1].text[1]))
             /\ OtherListsUntouched(listRet'[1].listId) ]_vars
    /\ [][ BulkItemStep("markItemComplete") =>
             /\ listRet'[1].ret =
                   Cardinality(MatchingItems(listItems, listRet'[1].listId,
                                             listRet'[1].text[1]))
             /\ OtherListsUntouched(listRet'[1].listId) ]_vars

\* C25: removeListItem deletes every item of the given list whose content contains
\* the search text case-insensitively and returns the number of those rows;
\* markItemComplete completes every such item that is not completed yet, leaves the
\* completed ones as they are and returns the number of rows it completed; neither
\* touches an item of another list; a call that meets a storage failure changes
\* nothing and returns 0.
C25_BulkItemOperations ==
    /\ [][ BulkItemStep("removeListItem") =>
             LET l == listRet'[1].listId
                 text == listRet'[1].text[1]
             IN  /\ listRet'[1].ret = Cardinality(MatchingItems(listItems, l, text))
                 /\ listItems' =
                      SelectSeq(listItems, LAMBDA it :
                          ~(it.listId = l /\ ContainsInsensitive(it.content, text))) ]_vars
    /\ [][ BulkItemStep("markItemComplete") =>
             LET l == listRet'[1].listId
                 text == listRet'[1].text[1]
             IN  /\ listRet'[1].ret = Cardinality(CompletableItems(listItems, l, text))
                 /\ Len(listItems') = Len(listItems)
                 /\ \A i \in 1..Len(listItems) :
                       IF i \in CompletableItems(listItems, l, text)
                       THEN /\ listItems'[i].isCompleted
                            /\ listItems'[i].content = listItems[i].content
                            /\ listItems'[i].listId = l
                       ELSE listItems'[i] = listItems[i] ]_vars
    /\ [][ (ListStep({"removeListItem", "markItemComplete"}) /\ ~listRet'[1].ok) =>
             listRet'[1].ret = 0 /\ listItems' = listItems ]_vars

\* markItemComplete has just found two matching items, one of them completed
\* before, and returned 1
C25_Witness ==
    /\ listRet # << >>
    /\ listRet[1].op = "markItemComplete" /\ listRet[1].ok
    /\ listRet[1].matched = 2 /\ listRet[1].ret = 1
    /\ \A i \in MatchingItems(listItems, listRet[1].listId, listRet[1].text[1]) :
          listItems[i].isCompleted

\* a list has just been resolved with no name or type given
ResolveDefaultStep ==
    /\ ListStep({"getList", "getUserAccessibleList", "handleListView"})
    /\ listRet'[1].query = Absent

C26_Original ==
    [][ ResolveDefaultStep =>
            /\ ~listRet'[1].threw
            /\ GroceryListIds(lists', listRet'[1].userId) = {listRet'[1].ret} ]_vars

\* C26: no user ever owns two grocery lists; a resolution with no name or type
\* that meets no storage failure returns the caller's own grocery list, which is
\* the one the caller owned before or, when the caller owned none, a new one
\* appended by this call, and it leaves the caller with exactly that one grocery
\* list; a resolution that meets a storage failure rejects and creates nothing.
C26_DefaultListIdempotent ==
    /\ [](\A u \in ListUsers : Cardinality(GroceryListIds(lists, u)) <= 1)
    /\ [][ (ResolveDefaultStep /\ ~listRet'[1].threw) =>
             LET u == listRet'[1].userId
             IN  /\ GroceryListIds(lists', u) = {listRet'[1].ret}
                 /\ lists'[listRet'[1].ret].ownerId = u
                 /\ IF GroceryListIds(lists, u) # {}
                    THEN lists' = lists
                    ELSE lists' = Append(lists, NewListRow(u, GROCERY_NAME,
                                                           GROCERY_TYPE)) ]_vars
    /\ [][ (ResolveDefaultStep /\ listRet'[1].threw) =>
             ~listRet'[1].ok /\ lists' = lists ]_vars

\* a resolution with no name has returned a grocery list that an earlier call
\* created: another list has been created since
C26_Witness ==
    /\ listRet # << >>
    /\ listRet[1].op \in {"getList", "getUserAccessibleList", "handleListView"}
    /\ listRet[1].query = Absent /\ ~listRet[1].threw
    /\ listRet[1].ret \in GroceryListIds(lists, listRet[1].userId)
    /\ listRet[1].ret < Len(lists)

\* C27: a list handler that resolves a list by name or type, with storage working,
\* finds a matching list shared with the caller through a ListShare row when there
\* is one, and never resolves to a list the caller neither owns nor has a ListShare
\* for.
C27_HandlersFindSharedLists ==
    [][ ( /\ ListStep({"handleListView"})
          /\ listRet'[1].query # Absent
          /\ listRet'[1].ok ) =>
            LET u == listRet'[1].userId
                ret == listRet'[1].ret
                matches == AccessibleMatches(lists, listShares, u, listRet'[1].query[1])
            IN  /\ matches # {} => ret \in matches
                /\ ret # NoRow =>
                      lists[ret].ownerId = u \/ SharedWith(listShares, ret, u) ]_vars

\* the ListShare rows the list of the last hasListAccess call was handed over with
SharesOnList ==
    IF listRet[1].ok THEN { sh \in listShares : sh.listId = listRet[1].listId } ELSE {}

MappedIntents == IntentType \ {"unknown"}

\* the handlers of the mapped labels
MappedHandlers ==
    { "handleContactLookup", "handleContactShare", "handleListView",
      "handleListAddItem", "handleListRemoveItem", "handleListMarkComplete",
      "handleListClear", "handleListCreate", "handleListShare",
      "handleLocationUpdate", "handleTripStart", "handleTripCancel",
      "handleLocationQuery", "handleEtaQuery", "handleHelp", "handleStatus" }

\* C29: handleIntent invokes exactly one handler per call: none before the
\* dispatch, one of the 16 handlers for a mapped label, and handleUnknown for
\* UNKNOWN and for every other string, and the handler invoked for a request never
\* changes; the reply of handleUnknown is its fixed text, which is not empty.
C29_OneHandlerPerCall ==
    /\ [] ( /\ ~smsReq.handled => smsReq.handler = "none"
            /\ (smsReq.handled /\ smsReq.intent \in MappedIntents) =>
                   smsReq.handler \in MappedHandlers
            /\ (smsReq.handled /\ smsReq.intent \notin MappedIntents) =>
                   /\ smsReq.handler = "handleUnknown"
                   /\ ~smsReq.handlerThrew =>
                         smsReq.response = UNKNOWN_REPLY /\ smsReq.response.len > 0 )
    /\ [][ (smsReq.handled /\ smsReq'.Sid = smsReq.Sid) =>
              smsReq'.handled /\ smsReq'.handler = smsReq.handler ]_vars

\* a label outside the enum has been dispatched to handleUnknown, which replied
C29_Witness ==
    /\ smsReq.handled
    /\ smsReq.intent = "gibberish"
    /\ smsReq.handler = "handleUnknown"
    /\ ~smsReq.handlerThrew
    /\ smsReq.response = UNKNOWN_REPLY

\* the /status request just answered carried no API key, or one that is not the
\* configured ADMIN_API_KEY
NoValidAdminKey ==
    \/ Falsy(ApiKeyOf(httpReq.authorization))
    \/ ApiKeyOf(httpReq.authorization) # httpReq.adminApiKey

\* C30: a GET /status request that carries no admin API key, or a key different
\* from ADMIN_API_KEY, is answered with 401 and never reaches statusCheck, also
\* when ADMIN_API_KEY is not configured.
C30_StatusRequiresAdminKey ==
    (httpReq.pc = "done" /\ httpReq.route = "/status" /\ NoValidAdminKey) =>
        httpReq.status = 401 /\ ~httpReq.reached

\* an updateLocation call, made directly or through updateLocationFromAddress,
\* has just returned
UpdateLocationStep ==
    /\ locRet'.op \in {"updateLocation", "updateLocationFromAddress"}
    /\ <<locations, locRet>>' # <<locations, locRet>>

\* C31: updateLocation either applies in full (every current row of the user
\* flipped, one new current row appended, the other rows as they were) and returns
\* the new row, or applies nothing and returns null; whatever the calls and their
\* failures, no user has two current rows.
C31_UpdateLocationAllOrNothing ==
    /\ [][ UpdateLocationStep =>
             IF locRet'.ret = NoRow
             THEN locations' = locations
             ELSE /\ Len(locations') = Len(locations) + 1
                  /\ locRet'.ret = Len(locations')
                  /\ locations'[locRet'.ret].userId = locRet'.userId
                  /\ locations'[locRet'.ret].isCurrent
                  /\ \A i \in 1..Len(locations) :
                        IF locations[i].userId = locRet'.userId
                        THEN locations'[i] = [locations[i] EXCEPT !.isCurrent = FALSE]
                        ELSE locations'[i] = locations[i] ]_vars
    /\ [](\A u \in UserIds : Cardinality(CurrentLocationIds(locations, u)) <= 1)

\* updateLocation has just failed for a user who has a current Location, which is
\* still current
C31_Witness ==
    /\ locRet.op = "updateLocation"
    /\ locRet.ret = NoRow
    /\ Cardinality(CurrentLocationIds(locations, locRet.userId)) = 1

\* the replies handleLocationUpdate words about the location itself
LocationDomainReplies == {"couldNotFigureOutWhere", "couldNotFindLocation", "locationUpdated"}

\* C32: when the storage transaction of a location update fails although the
\* address was geocoded, the reply of the handler is not a reply about the
\* location (it is the generic apology).
C32_StorageFailureGenericApology ==
    \A i \in 1..Len(locReply) :
        (locReply[i].geo = "ok" /\ locRet.ret = NoRow) =>
            locReply[i].reply.kind \notin LocationDomainReplies

\* the status a MessageLog row is created with
CreatedStatus(row) == IF row.direction = "inbound" THEN "received" ELSE "queued"

\* a step of handleSmsStatus: rows change while no request of handleIncomingSms moves
StatusCallbackStep ==
    /\ messageLog' # messageLog
    /\ UNCHANGED <<smsPc, smsReq, outbox, received>>

\* C33: MessageLog rows are never deleted; a row changes only in its intent and
\* its status, the intent only while it is still unset and the status only while
\* it is still the one the row was created with (at most two modifications in a
\* lifetime); a status callback changes only the status of rows with one
\* provider message id.
C33_MessageLogPatchedAtMostTwice ==
    [][ /\ Len(messageLog') >= Len(messageLog)
        /\ \A i \in 1..Len(messageLog) :
              /\ messageLog'[i] = [messageLog[i] EXCEPT !.intent = messageLog'[i].intent,
                                                        !.status = messageLog'[i].status]
              /\ messageLog[i].intent # "null" => messageLog'[i].intent = messageLog[i].intent
              /\ messageLog[i].status # CreatedStatus(messageLog[i]) =>
                     messageLog'[i].status = messageLog[i].status
        /\ StatusCallbackStep =>
              \E sid \in StatusSids :
                 \A i \in 1..Len(messageLog) :
                    messageLog'[i] # messageLog[i] =>
                       /\ messageLog[i].twilioSid = sid
                       /\ messageLog'[i] = [messageLog[i] EXCEPT !.status = messageLog'[i].status]
      ]_vars

\* C34: in every reachable state a List with a ListShare row has isShared = true,
\* and no two ListShare rows have the same list and the same sharedWithUser.
C34_SharedFlagFollowsShares ==
    /\ \A sh \in listShares : lists[sh.listId].isShared
    /\ \A s1, s2 \in listShares :
          (s1.listId = s2.listId /\ s1.sharedWithUserId = s2.sharedWithUserId) => s1 = s2

\* C35: Location rows are append-only. No step removes a row or changes the
\* owner, the coordinates or the address of a row; the only change to a row is
\* isCurrent, and it never goes from false to true.
C35_LocationsAppendOnly ==
    [][ /\ Len(locations') >= Len(locations)
        /\ \A i \in 1..Len(locations) :
              /\ locations'[i] = [locations[i] EXCEPT !.isCurrent = locations'[i].isCurrent]
              /\ locations'[i].isCurrent => locations[i].isCurrent ]_vars

\* an older row has been flipped by a later update and a newer row is current
C35_Witness ==
    \E i, j \in LocationIds :
        /\ i < j
        /\ locations[i].userId = locations[j].userId
        /\ ~locations[i].isCurrent
        /\ locations[j].isCurrent
        /\ locations[i].address # ""

\* C36: every inbound message causes exactly one send attempt. No message ever
\* has two attempts (so the controller's apology never follows a reply or a
\* rejection that was attempted, whatever became of it), a finished request has
\* one, and every accepted message reaches the end of its request with one.
C36_ExactlyOneSendAttempt ==
    /\ [](\A n \in 1..MaxMessages : Len(AttemptsFor(n)) <= 1)
    /\ [](RequestDone => Len(AttemptsFor(smsReq.Sid)) = 1)
    /\ \A n \in 1..MaxMessages :
          (received = n /\ smsPc = "log") ~>
              (RequestDone /\ smsReq.Sid = n /\ Len(AttemptsFor(n)) = 1)

\* the reply of a handler was attempted and refused by the provider, and the
\* request ended without a second attempt
C36_Witness ==
    /\ RequestDone
    /\ smsReq.handled
    /\ AttemptsFor(smsReq.Sid) # << >>
    /\ ~AttemptsFor(smsReq.Sid)[1].accepted
    /\ AttemptsFor(smsReq.Sid)[1].body = smsReq.response

\* the users other than the caller
OthersOf(userId) == UserIds \ {userId}

\* a second run differs from the run made in rows of other users only: such rows,
\* of the other user the model follows, stand before and after the rows of the table
PadOwners(userId) == OthersOf(userId) \cap ListUsers

LocationPads(userId) ==
    {<< >>} \cup { << NewLocationRow(o, 1, 1, "456 Oak Ave") >> : o \in PadOwners(userId) }

LocationWorlds(locs, userId) ==
    { pre \o locs \o post : pre \in LocationPads(userId), post \in LocationPads(userId) }

TripPads(userId) ==
    {<< >>} \cup
    { << NewTripRow(o, << >>, NoRow, g, << 1 >>) >> :
         o \in PadOwners(userId), g \in { x \in TripGeocodes : x.status = "ok" } }

TripWorlds(trs, userId) ==
    { pre \o trs \o post : pre \in TripPads(userId), post \in TripPads(userId) }

ListPads(userId) ==
    {<< >>} \cup
    { << NewListRow(o, GROCERY_NAME, GROCERY_TYPE) >> : o \in PadOwners(userId) } \cup
    { << [NewListRow(o, n, GENERAL_TYPE) EXCEPT !.isShared = TRUE] >> :
         o \in PadOwners(userId) \cap ListOwners, n \in ListNames }

ListWorlds(ls, userId) ==
    { pre \o ls \o post : pre \in ListPads(userId), post \in ListPads(userId) }

\* the row with the given id, as the caller sees it
RowAt(rows, id) == IF id = NoRow THEN << >> ELSE << rows[id] >>

OwnedBy(rows, userId) == SelectSeq(rows, LAMBDA r : r.userId = userId)
NotOwnedBy(rows, userId) == SelectSeq(rows, LAMBDA r : r.userId # userId)
OwnedLists(ls, userId) == SelectSeq(ls, LAMBDA r : r.ownerId = userId)
NotOwnedLists(ls, userId) == SelectSeq(ls, LAMBDA r : r.ownerId # userId)

\* what a run of startTrip shows its caller: the trip returned, the caller's trips
\* afterwards, and whether the trips of the others are as before
TripStartOutcome(trs, locs, userId, geo, directions, t, locOk, ok) ==
    LET r == startTrip(trs, locs, userId, geo, directions, t, locOk, ok)
    IN  [trip |-> RowAt(r.trips, r.ret),
         owned |-> OwnedBy(r.trips, userId),
         othersKept |-> NotOwnedBy(r.trips, userId) = NotOwnedBy(trs, userId)]

\* the same for handleTripCancel
TripCancelOutcome(trs, userId, t, tripOk, ok) ==
    LET activeTrip == getActiveTrip(trs, userId, tripOk)
        r == CancelTripResult(trs, activeTrip, t, ok)
        after == IF activeTrip = NoRow THEN trs ELSE r.trips
    IN  [trip |-> RowAt(trs, activeTrip),
         owned |-> OwnedBy(after, userId),
         othersKept |-> NotOwnedBy(after, userId) = NotOwnedBy(trs, userId)]

\* the same for the getList of a list handler, one outcome for each row findFirst
\* may pick
ListViewOutcomes(ls, userId, listNameOrType, ok) ==
    { LET r == getList(ls, userId, listNameOrType, found, ok)
      IN  [list |-> RowAt(r.lists, r.ret),
           threw |-> r.threw,
           owned |-> OwnedLists(r.lists, userId),
           othersKept |-> NotOwnedLists(r.lists, userId) = NotOwnedLists(ls, userId)] :
      found \in getListPicks(ls, userId, listNameOrType) }

LocationQueryStep ==
    /\ locReply' # << >>
    /\ locReply'[1].reply.kind \in {"currentLocation", "noCurrentLocation"}
    /\ locReply' # locReply

C38_UnknownSenderWritesOnlyLog ==
    [][ ( /\ smsPc' # "idle"
          /\ Unauthorized(smsReq'.fromPhone)
          /\ smsVars' # smsVars ) =>
            /\ UNCHANGED <<permissions, lists, listItems, listShares, locations, trips>>
            /\ ~smsReq'.classified /\ ~smsReq'.handled /\ smsReq'.handler = "none"
            /\ Len(messageLog') >= Len(messageLog)
            /\ \A i \in 1..Len(messageLog) : messageLog'[i] = messageLog[i] ]_vars

\* the request of an unknown sender has ended and left its inbound row and the
\* outbound row of the rejection in the MessageLog
C38_Witness ==
    /\ RequestDone
    /\ Unauthorized(smsReq.fromPhone)
    /\ Len(messageLog) = 2
    /\ messageLog[1].direction = "inbound"
    /\ messageLog[2].direction = "outbound"

\* a grantPermission without expiresAt has just returned true for a key that had a row
RegrantWithoutExpiry ==
    /\ permCall # << >>
    /\ permCall[1].op = "grantPermission"
    /\ permCall[1].ret
    /\ permCall[1].expiresAt = NoDate
    /\ permCall[1].before # {}

\* C39: grantPermission without an expiresAt on an existing row sets isActive
\* and keeps the stored expiresAt; when that expiresAt is already past,
\* hasPermission of the grantee is still false after the grant.
C39_RegrantKeepsStoredExpiry ==
    RegrantWithoutExpiry =>
        \A b \in permCall[1].before :
            /\ PermRowsAt(permissions, permCall[1].userId, permCall[1].grantedByUserId,
                          permCall[1].permissionType) = { [b EXCEPT !.isActive = TRUE] }
            /\ (b.expiresAt # NoDate /\ b.expiresAt[1] < now) =>
                   hasPermission(UserById(permCall[1].userId), permCall[1].grantedByUserId,
                                 permCall[1].permissionType, permissions, now, FALSE)
                     = Returned(FALSE)

\* a revoked row whose expiresAt is past has been granted again without expiry
C39_Witness ==
    /\ RegrantWithoutExpiry
    /\ \E b \in permCall[1].before :
          /\ ~b.isActive
          /\ b.expiresAt # NoDate /\ b.expiresAt[1] < now
    /\ \E r \in permissions : r.isActive /\ r.expiresAt # NoDate /\ r.expiresAt[1] < now

\* C40: when requests of one user that resolve the default list run at the same
\* time, the user ends with at most one grocery list, and the requests that have
\* resolved their list hold the same one.
C40_ConcurrentDefaultListIsOne ==
    /\ \A u \in ListUsers : Cardinality(GroceryListIds(lists, u)) <= 1
    /\ \A p, q \in Procs :
          ( /\ addReq[p].pc \in {"add", "done"}
            /\ addReq[q].pc \in {"add", "done"}
            /\ addReq[p].userId = addReq[q].userId ) =>
              addReq[p].list = addReq[q].list

====
